---- MODULE Spec2Model ----
(***************************************************************************)
(* Model of the analyze-market pipeline of backend/server.py:              *)
(*   MarketIntelligenceAgent.get_curated_market_data                       *)
(*   MarketIntelligenceAgent.analyze_market_landscape                      *)
(*   MarketIntelligenceAgent._get_fallback_analysis                        *)
(*   ComprehensiveAnalysisEngine.generate_market_map                       *)
(*   VisualMapGenerator.generate_visual_market_map                         *)
(*   analyze_market (POST /api/analyze-market)                             *)
(*                                                                         *)
(* Representation.                                                         *)
(*   A Python str is a tuple of one-character strings, so that lower(),    *)
(*   strip(), split() and the substring test `a in b` are computed.        *)
(*   A JSON / Python value is a tagged record:                             *)
(*     [t |-> "null"]              None                                    *)
(*     [t |-> "num",  n |-> i]     a number (see units below)              *)
(*     [t |-> "str",  s |-> chars] a string                                *)
(*     [t |-> "list", l |-> seq]   a list                                  *)
(*     [t |-> "dict", d |-> f]     a dict; DOMAIN f is the set of its keys *)
(*   Units: money is counted in thousands of dollars (27800000 stands for  *)
(*   $27.8B), rates and shares in thousandths (84 stands for 0.084).       *)
(***************************************************************************)
EXTENDS Integers, Sequences, FiniteSets, TLC

(***************************************************************************)
(* Python str operations                                                   *)
(***************************************************************************)
UpperChars == <<"A","B","C","D","E","F","G","H","I","J","K","L","M",
                "N","O","P","Q","R","S","T","U","V","W","X","Y","Z">>
LowerChars == <<"a","b","c","d","e","f","g","h","i","j","k","l","m",
                "n","o","p","q","r","s","t","u","v","w","x","y","z">>

\* str.lower() on one character
LowerChar(c) ==
    IF \E i \in 1..Len(UpperChars) : UpperChars[i] = c
    THEN LowerChars[CHOOSE i \in 1..Len(UpperChars) : UpperChars[i] = c]
    ELSE c

\* str.lower()
Lower(s) == [i \in 1..Len(s) |-> LowerChar(s[i])]

\* the characters str.strip() and str.split() treat as whitespace
IsSpace(c) == c \in {" ", "\t", "\n", "\r"}

\* str.strip()
Least(S) == CHOOSE i \in S : \A j \in S : i <= j
Greatest(S) == CHOOSE i \in S : \A j \in S : j <= i
StripTo(s, nonsp) ==
    IF nonsp = {} THEN <<>> ELSE SubSeq(s, Least(nonsp), Greatest(nonsp))
Strip(s) == StripTo(s, {i \in 1..Len(s) : ~IsSpace(s[i])})

\* needle in hay (Python substring test; the empty string is in every string)
Contains(hay, needle) ==
    \E i \in 0..(Len(hay) - Len(needle)) :
        \A j \in 1..Len(needle) : hay[i + j] = needle[j]

\* str.startswith / str.endswith
StartsWith(s, p) == Len(p) <= Len(s) /\ SubSeq(s, 1, Len(p)) = p
EndsWith(s, p) == Len(p) <= Len(s) /\ SubSeq(s, Len(s) - Len(p) + 1, Len(s)) = p

\* str.split(): the maximal runs of non-whitespace characters, as a set
\* (the callers only quantify over the words)
Words(s) ==
    { SubSeq(s, i, j) : <<i, j>> \in
        { p \in (1..Len(s)) \X (1..Len(s)) :
            /\ p[1] <= p[2]
            /\ \A k \in p[1]..p[2] : ~IsSpace(s[k])
            /\ (p[1] = 1 \/ IsSpace(s[p[1] - 1]))
            /\ (p[2] = Len(s) \/ IsSpace(s[p[2] + 1])) } }

(***************************************************************************)
(* Python / JSON values                                                    *)
(***************************************************************************)
Null == [t |-> "null"]
Num(i) == [t |-> "num", n |-> i]
Str(chars) == [t |-> "str", s |-> chars]
List(seq) == [t |-> "list", l |-> seq]
Dict(f) == [t |-> "dict", d |-> f]
EmptyDict == Dict([k \in {} |-> Null])

\* key in d
HasKey(v, k) == k \in DOMAIN v.d

\* d.get(k, default) on a dict
Get(v, k, default) == IF HasKey(v, k) THEN v.d[k] ELSE default

\* bool(v): Python truthiness
Truthy(v) ==
    CASE v.t = "null" -> FALSE
      [] v.t = "num"  -> v.n # 0
      [] v.t = "str"  -> Len(v.s) > 0
      [] v.t = "list" -> Len(v.l) > 0
      [] v.t = "dict" -> DOMAIN v.d # {}

(***************************************************************************)
(* Python exceptions: an operator that can raise returns Raise, else Ok(v) *)
(***************************************************************************)
Raise == [ok |-> FALSE]
Ok(val) == [ok |-> TRUE, v |-> val]

Digits == <<"0","1","2","3","4","5","6","7","8","9">>
IsDigit(c) == \E i \in 1..Len(Digits) : Digits[i] = c
DigitVal(c) == (CHOOSE i \in 1..Len(Digits) : Digits[i] = c) - 1

RECURSIVE DigitsVal(_)
DigitsVal(s) ==
    IF s = <<>> THEN 0
    ELSE DigitsVal(SubSeq(s, 1, Len(s) - 1)) * 10 + DigitVal(s[Len(s)])

\* float(s) for a stripped str: an optional sign and decimal digits (the
\* texts of this model have no fraction, exponent, inf or nan)
ParseDigits(body, negative) ==
    IF Len(body) > 0 /\ \A i \in 1..Len(body) : IsDigit(body[i])
    THEN Ok(IF negative THEN 0 - DigitsVal(body) ELSE DigitsVal(body))
    ELSE Raise
ParseFloat(s) ==
    IF Len(s) > 0 /\ s[1] \in {"-", "+"}
    THEN ParseDigits(Tail(s), s[1] = "-")
    ELSE ParseDigits(s, FALSE)

\* float(v): a number is kept, a str is stripped and parsed, anything else
\* raises TypeError
FloatCast(v) ==
    CASE v.t = "num" -> Ok(v.n)
      [] v.t = "str" -> ParseFloat(Strip(v.s))
      [] OTHER -> Raise

\* `for x in v`: a list gives its elements, a str its characters, a dict
\* its keys (strs; their text is not modelled, every use here calls .get on
\* them and raises), None and numbers raise TypeError
Iter(v) ==
    CASE v.t = "list" -> Ok(v.l)
      [] v.t = "str"  -> Ok([i \in 1..Len(v.s) |-> Str(<<v.s[i]>>)])
      [] v.t = "dict" -> Ok([i \in 1..Cardinality(DOMAIN v.d) |-> Str(<<"?">>)])
      [] OTHER -> Raise

(***************************************************************************)
(* pydantic field validation (BaseModel.__init__), for the field types of  *)
(* the models at server.py:65-165.  Inputs on which pydantic 1 and 2       *)
(* differ (a number given for a str field) are not drawn by this model.    *)
(***************************************************************************)
\* str
ValidStr(v) == v.t = "str"
\* Optional[str]
ValidOptStr(v) == v.t \in {"null", "str"}
\* List[str]
ValidStrList(v) == v.t = "list" /\ \A i \in 1..Len(v.l) : v.l[i].t = "str"
\* Optional[List[str]]
ValidOptStrList(v) == v.t = "null" \/ ValidStrList(v)
\* Optional[Dict[str, Any]]
ValidOptDict(v) == v.t \in {"null", "dict"}
\* Optional[float]: None is kept, a number or numeric str becomes a float
ValidOptFloat(v) == v.t = "null" \/ FloatCast(v).ok
CoerceOptFloat(v) == IF v.t = "null" THEN Null ELSE Num(FloatCast(v).v)

(***************************************************************************)
(* String literals of get_curated_market_data (server.py:173-267)          *)
(***************************************************************************)
\* the string literals of the table and of the geography fold (lines 173-231)
CuratedText == [
    craft_beer |->
        <<"c","r","a","f","t"," ","b","e","e","r">>,
    food_beverage |->
        <<"f","o","o","d"," ","&"," ","b","e","v","e","r","a","g","e">>,
    united_states |->
        <<"u","n","i","t","e","d"," ","s","t","a","t","e","s">>,
    payment_processing |->
        <<"p","a","y","m","e","n","t"," ","p","r","o","c","e","s","s","i","n","g">>,
    financial_services |->
        <<"f","i","n","a","n","c","i","a","l"," ","s","e","r","v","i","c","e","s">>,
    global |->
        <<"g","l","o","b","a","l">>,
    fitness_tracker |->
        <<"f","i","t","n","e","s","s"," ","t","r","a","c","k","e","r">>,
    wearable_technology |->
        <<"w","e","a","r","a","b","l","e"," ","t","e","c","h","n","o","l","o","g","y">>,
    event_equipment_rental |->
        <<"e","v","e","n","t"," ","e","q","u","i","p","m","e","n","t"," ","r","e","n","t","a","l">>,
    event_services |->
        <<"e","v","e","n","t"," ","s","e","r","v","i","c","e","s">>,
    event_planning |->
        <<"e","v","e","n","t"," ","p","l","a","n","n","i","n","g">>,
    project_management_software |->
        <<"p","r","o","j","e","c","t"," ","m","a","n","a","g","e","m","e","n","t"," ","s","o","f","t","w","a","r","e">>,
    software |->
        <<"s","o","f","t","w","a","r","e">>,
    usa |->
        <<"u","s","a">>,
    us |->
        <<"u","s">>,
    america |->
        <<"a","m","e","r","i","c","a">>,
    united_states_of_america |->
        <<"u","n","i","t","e","d"," ","s","t","a","t","e","s"," ","o","f"," ","a","m","e","r","i","c","a">>,
    worldwide |->
        <<"w","o","r","l","d","w","i","d","e">>,
    international |->
        <<"i","n","t","e","r","n","a","t","i","o","n","a","l">>,
    technology |->
        <<"t","e","c","h","n","o","l","o","g","y">>,
    fintech |->
        <<"f","i","n","t","e","c","h">>,
    Sierra_Nevada |->
        <<"S","i","e","r","r","a"," ","N","e","v","a","d","a">>,
    Stone_Brewing |->
        <<"S","t","o","n","e"," ","B","r","e","w","i","n","g">>,
    New_Belgium |->
        <<"N","e","w"," ","B","e","l","g","i","u","m">>,
    Dogfish_Head |->
        <<"D","o","g","f","i","s","h"," ","H","e","a","d">>,
    Bell_s_Brewery |->
        <<"B","e","l","l","'","s"," ","B","r","e","w","e","r","y">>,
    Brewers_Association |->
        <<"B","r","e","w","e","r","s"," ","A","s","s","o","c","i","a","t","i","o","n">>,
    IBISWorld |->
        <<"I","B","I","S","W","o","r","l","d">>,
    Visa |->
        <<"V","i","s","a">>,
    Mastercard |->
        <<"M","a","s","t","e","r","c","a","r","d">>,
    PayPal |->
        <<"P","a","y","P","a","l">>,
    Stripe |->
        <<"S","t","r","i","p","e">>,
    Square |->
        <<"S","q","u","a","r","e">>,
    McKinsey |->
        <<"M","c","K","i","n","s","e","y">>,
    PwC_Global_Payments_Report |->
        <<"P","w","C"," ","G","l","o","b","a","l"," ","P","a","y","m","e","n","t","s"," ","R","e","p","o","r","t">>,
    Apple |->
        <<"A","p","p","l","e">>,
    Fitbit |->
        <<"F","i","t","b","i","t">>,
    Garmin |->
        <<"G","a","r","m","i","n">>,
    Xiaomi |->
        <<"X","i","a","o","m","i">>,
    Samsung |->
        <<"S","a","m","s","u","n","g">>,
    Grand_View_Research |->
        <<"G","r","a","n","d"," ","V","i","e","w"," ","R","e","s","e","a","r","c","h">>,
    Allied_Market_Research |->
        <<"A","l","l","i","e","d"," ","M","a","r","k","e","t"," ","R","e","s","e","a","r","c","h">>,
    United_Rentals |->
        <<"U","n","i","t","e","d"," ","R","e","n","t","a","l","s">>,
    Home_Depot_Tool_Rental |->
        <<"H","o","m","e"," ","D","e","p","o","t"," ","T","o","o","l"," ","R","e","n","t","a","l">>,
    Party_City |->
        <<"P","a","r","t","y"," ","C","i","t","y">>,
    Abbey_Party_Rents |->
        <<"A","b","b","e","y"," ","P","a","r","t","y"," ","R","e","n","t","s">>,
    Classic_Party_Rentals |->
        <<"C","l","a","s","s","i","c"," ","P","a","r","t","y"," ","R","e","n","t","a","l","s">>,
    Tent_Rental_Plus |->
        <<"T","e","n","t"," ","R","e","n","t","a","l"," ","P","l","u","s">>,
    American_Rental_Association |->
        <<"A","m","e","r","i","c","a","n"," ","R","e","n","t","a","l"," ","A","s","s","o","c","i","a","t","i","o","n">>,
    Event_Rental_Systems |->
        <<"E","v","e","n","t"," ","R","e","n","t","a","l"," ","S","y","s","t","e","m","s">>,
    Eventbrite |->
        <<"E","v","e","n","t","b","r","i","t","e">>,
    Cvent |->
        <<"C","v","e","n","t">>,
    Meeting_Professionals_International |->
        <<"M","e","e","t","i","n","g"," ","P","r","o","f","e","s","s","i","o","n","a","l","s"," ","I","n","t","e","r","n","a","t","i","o","n","a","l">>,
    International_Live_Events_Association |->
        <<"I","n","t","e","r","n","a","t","i","o","n","a","l"," ","L","i","v","e"," ","E","v","e","n","t","s"," ","A","s","s","o","c","i","a","t","i","o","n">>,
    Microsoft_Project |->
        <<"M","i","c","r","o","s","o","f","t"," ","P","r","o","j","e","c","t">>,
    Asana |->
        <<"A","s","a","n","a">>,
    Monday_com |->
        <<"M","o","n","d","a","y",".","c","o","m">>,
    Jira |->
        <<"J","i","r","a">>,
    ClickUp |->
        <<"C","l","i","c","k","U","p">>,
    Trello |->
        <<"T","r","e","l","l","o">>,
    MarketsandMarkets |->
        <<"M","a","r","k","e","t","s","a","n","d","M","a","r","k","e","t","s">>,
    high |->
        <<"h","i","g","h">>]

(***************************************************************************)
(* MarketIntelligenceAgent.get_curated_market_data                         *)
(***************************************************************************)
\* market_segments: a Python dict keeps insertion order, so the table is the
\* sequence of its (key, value) pairs in source order
market_segments == <<
    [key |-> <<CuratedText.craft_beer, CuratedText.food_beverage, CuratedText.united_states>>,
     tam |-> 27800000, growth_rate |-> 84,
     competitors |-> <<CuratedText.Sierra_Nevada, CuratedText.Stone_Brewing, CuratedText.New_Belgium,
                       CuratedText.Dogfish_Head, CuratedText.Bell_s_Brewery>>,
     sources |-> <<CuratedText.Brewers_Association, CuratedText.IBISWorld>>,
     confidence |-> CuratedText.high],
    [key |-> <<CuratedText.payment_processing, CuratedText.financial_services, CuratedText.global>>,
     tam |-> 125000000, growth_rate |-> 87,
     competitors |-> <<CuratedText.Visa, CuratedText.Mastercard, CuratedText.PayPal, CuratedText.Stripe, CuratedText.Square>>,
     sources |-> <<CuratedText.McKinsey, CuratedText.PwC_Global_Payments_Report>>,
     confidence |-> CuratedText.high],
    [key |-> <<CuratedText.fitness_tracker, CuratedText.wearable_technology, CuratedText.global>>,
     tam |-> 42000000, growth_rate |-> 92,
     competitors |-> <<CuratedText.Apple, CuratedText.Fitbit, CuratedText.Garmin, CuratedText.Xiaomi, CuratedText.Samsung>>,
     sources |-> <<CuratedText.Grand_View_Research, CuratedText.Allied_Market_Research>>,
     confidence |-> CuratedText.high],
    [key |-> <<CuratedText.event_equipment_rental, CuratedText.event_services, CuratedText.united_states>>,
     tam |-> 18500000, growth_rate |-> 58,
     competitors |-> <<CuratedText.United_Rentals, CuratedText.Home_Depot_Tool_Rental, CuratedText.Party_City,
                       CuratedText.Abbey_Party_Rents, CuratedText.Classic_Party_Rentals,
                       CuratedText.Tent_Rental_Plus>>,
     sources |-> <<CuratedText.IBISWorld, CuratedText.American_Rental_Association,
                   CuratedText.Event_Rental_Systems>>,
     confidence |-> CuratedText.high],
    [key |-> <<CuratedText.event_planning, CuratedText.event_services, CuratedText.united_states>>,
     tam |-> 5200000, growth_rate |-> 87,
     competitors |-> <<CuratedText.Eventbrite, CuratedText.Cvent,
                       CuratedText.Meeting_Professionals_International,
                       CuratedText.International_Live_Events_Association>>,
     sources |-> <<CuratedText.IBISWorld, CuratedText.Grand_View_Research>>,
     confidence |-> CuratedText.high],
    [key |-> <<CuratedText.project_management_software, CuratedText.software, CuratedText.global>>,
     tam |-> 6800000, growth_rate |-> 105,
     competitors |-> <<CuratedText.Microsoft_Project, CuratedText.Asana, CuratedText.Monday_com, CuratedText.Jira,
                       CuratedText.ClickUp, CuratedText.Trello>>,
     sources |-> <<CuratedText.Grand_View_Research, CuratedText.MarketsandMarkets>>,
     confidence |-> CuratedText.high] >>

\* the geography folds of lines 227-231
NormalizeGeography(geography_key) ==
    IF geography_key \in {CuratedText.usa, CuratedText.us, CuratedText.america, CuratedText.united_states,
                          CuratedText.united_states_of_america}
    THEN CuratedText.united_states
    ELSE IF geography_key \in {CuratedText.worldwide, CuratedText.international, CuratedText.global}
         THEN CuratedText.global
         ELSE geography_key

\* product_match of lines 243-250
product_match(product_key, key_product) ==
    \/ Contains(key_product, product_key)
    \/ Contains(product_key, key_product)
    \/ \E word \in Words(product_key) : Len(word) > 3 /\ Contains(key_product, word)
    \/ \E word \in Words(key_product) : Len(word) > 3 /\ Contains(product_key, word)

\* industry_match of lines 253-260
industry_match(industry_key, key_industry) ==
    \/ industry_key = key_industry
    \/ Contains(key_industry, industry_key)
    \/ Contains(industry_key, key_industry)
    \/ (industry_key = CuratedText.wearable_technology /\ key_industry = CuratedText.technology)
    \/ (industry_key = CuratedText.technology /\ Contains(key_industry, CuratedText.software))
    \/ (industry_key = CuratedText.fintech /\ key_industry = CuratedText.financial_services)

\* geography_match of lines 263-267
geography_match(geography_key, key_geography) ==
    \/ geography_key = key_geography
    \/ (geography_key = CuratedText.global /\ key_geography \in {CuratedText.global, CuratedText.worldwide})
    \/ (geography_key = CuratedText.united_states /\ key_geography = CuratedText.united_states)

\* the exact match of lines 234-236, else the first fuzzy match of lines
\* 239-270, else None
FirstEntry(table, exact, fuzzy) ==
    IF exact # {} THEN [found |-> TRUE, data |-> table[Least(exact)]]
    ELSE IF fuzzy # {} THEN [found |-> TRUE, data |-> table[Least(fuzzy)]]
    ELSE [found |-> FALSE]

LookupKeys(table, product_key, industry_key, geography_key) ==
    FirstEntry(table,
        {i \in 1..Len(table) :
            table[i].key = <<product_key, industry_key, geography_key>>},
        {i \in 1..Len(table) :
            /\ product_match(product_key, table[i].key[1])
            /\ industry_match(industry_key, table[i].key[2])
            /\ geography_match(geography_key, table[i].key[3])})

\* returns [found |-> TRUE, data |-> entry] or [found |-> FALSE] (None)
get_curated_market_data(product_name, industry, geography) ==
    LookupKeys(market_segments,
               Strip(Lower(product_name)),
               Strip(Lower(industry)),
               NormalizeGeography(Strip(Lower(geography))))

(***************************************************************************)
(* String literals of analyze_market_landscape and _get_fallback_analysis  *)
(* (server.py:284-290, 708-966)                                            *)
(***************************************************************************)
\* the string literals of lines 284-290 and 708-966
FallbackText == [
    new_product |->
        <<"n","e","w"," ","p","r","o","d","u","c","t">>,
    new_service |->
        <<"n","e","w"," ","s","e","r","v","i","c","e">>,
    startup |->
        <<"s","t","a","r","t","u","p">>,
    new_company |->
        <<"n","e","w"," ","c","o","m","p","a","n","y">>,
    b2b |->
        <<"b","2","b">>,
    business |->
        <<"b","u","s","i","n","e","s","s">>,
    enterprise |->
        <<"e","n","t","e","r","p","r","i","s","e">>,
    saas |->
        <<"s","a","a","s">>,
    consulting |->
        <<"c","o","n","s","u","l","t","i","n","g">>,
    professional_services |->
        <<"p","r","o","f","e","s","s","i","o","n","a","l"," ","s","e","r","v","i","c","e","s">>,
    existing_brand |->
        <<"e","x","i","s","t","i","n","g","_","b","r","a","n","d">>,
    new_entrant |->
        <<"n","e","w","_","e","n","t","r","a","n","t">>,
    Market_presence |->
        <<"M","a","r","k","e","t"," ","p","r","e","s","e","n","c","e">>,
    Brand_recognition |->
        <<"B","r","a","n","d"," ","r","e","c","o","g","n","i","t","i","o","n">>,
    Competition |->
        <<"C","o","m","p","e","t","i","t","i","o","n">>,
    Market_saturation |->
        <<"M","a","r","k","e","t"," ","s","a","t","u","r","a","t","i","o","n">>,
    v_150_400 |->
        <<"$","1","5","0","-","$","4","0","0">>,
    Mid_Range |->
        <<"M","i","d","-","R","a","n","g","e">>,
    Market_growth |->
        <<"M","a","r","k","e","t"," ","g","r","o","w","t","h">>,
    Market_Leader |->
        <<"M","a","r","k","e","t"," ","L","e","a","d","e","r">>,
    Market_dominance |->
        <<"M","a","r","k","e","t"," ","d","o","m","i","n","a","n","c","e">>,
    High_pricing |->
        <<"H","i","g","h"," ","p","r","i","c","i","n","g">>,
    Legacy_systems |->
        <<"L","e","g","a","c","y"," ","s","y","s","t","e","m","s">>,
    v_200_500 |->
        <<"$","2","0","0","-","$","5","0","0">>,
    Premium |->
        <<"P","r","e","m","i","u","m">>,
    Market_expansion |->
        <<"M","a","r","k","e","t"," ","e","x","p","a","n","s","i","o","n">>,
    Technology_Innovator |->
        <<"T","e","c","h","n","o","l","o","g","y"," ","I","n","n","o","v","a","t","o","r">>,
    Innovation |->
        <<"I","n","n","o","v","a","t","i","o","n">>,
    Technology_leadership |->
        <<"T","e","c","h","n","o","l","o","g","y"," ","l","e","a","d","e","r","s","h","i","p">>,
    Limited_market_reach |->
        <<"L","i","m","i","t","e","d"," ","m","a","r","k","e","t"," ","r","e","a","c","h">>,
    Resource_constraints |->
        <<"R","e","s","o","u","r","c","e"," ","c","o","n","s","t","r","a","i","n","t","s">>,
    Technology_advancement |->
        <<"T","e","c","h","n","o","l","o","g","y"," ","a","d","v","a","n","c","e","m","e","n","t">>,
    Growth_Challenger |->
        <<"G","r","o","w","t","h"," ","C","h","a","l","l","e","n","g","e","r">>,
    Rapid_growth |->
        <<"R","a","p","i","d"," ","g","r","o","w","t","h">>,
    Customer_focus |->
        <<"C","u","s","t","o","m","e","r"," ","f","o","c","u","s">>,
    Scale_limitations |->
        <<"S","c","a","l","e"," ","l","i","m","i","t","a","t","i","o","n","s">>,
    Brand_awareness |->
        <<"B","r","a","n","d"," ","a","w","a","r","e","n","e","s","s">>,
    v_100_300 |->
        <<"$","1","0","0","-","$","3","0","0">>,
    Customer_experience |->
        <<"C","u","s","t","o","m","e","r"," ","e","x","p","e","r","i","e","n","c","e">>,
    Value_Player |->
        <<"V","a","l","u","e"," ","P","l","a","y","e","r">>,
    Cost_efficiency |->
        <<"C","o","s","t"," ","e","f","f","i","c","i","e","n","c","y">>,
    Accessibility |->
        <<"A","c","c","e","s","s","i","b","i","l","i","t","y">>,
    Limited_features |->
        <<"L","i","m","i","t","e","d"," ","f","e","a","t","u","r","e","s">>,
    Low_margins |->
        <<"L","o","w"," ","m","a","r","g","i","n","s">>,
    v_50_200 |->
        <<"$","5","0","-","$","2","0","0">>,
    Budget |->
        <<"B","u","d","g","e","t">>,
    Cost_optimization |->
        <<"C","o","s","t"," ","o","p","t","i","m","i","z","a","t","i","o","n">>,
    Major_Metro_Areas |->
        <<"M","a","j","o","r"," ","M","e","t","r","o"," ","A","r","e","a","s">>,
    Urban_markets_with_high_population_density |->
        <<"U","r","b","a","n"," ","m","a","r","k","e","t","s"," ","w","i","t","h"," ","h","i","g","h"," ","p","o","p","u","l","a","t","i","o","n"," ","d","e","n","s","i","t","y">>,
    Suburban_Markets |->
        <<"S","u","b","u","r","b","a","n"," ","M","a","r","k","e","t","s">>,
    Suburban_areas_with_growing_populations |->
        <<"S","u","b","u","r","b","a","n"," ","a","r","e","a","s"," ","w","i","t","h"," ","g","r","o","w","i","n","g"," ","p","o","p","u","l","a","t","i","o","n","s">>,
    Secondary_Cities |->
        <<"S","e","c","o","n","d","a","r","y"," ","C","i","t","i","e","s">>,
    Mid_size_cities_and_rural_areas |->
        <<"M","i","d","-","s","i","z","e"," ","c","i","t","i","e","s"," ","a","n","d"," ","r","u","r","a","l"," ","a","r","e","a","s">>,
    Young_Adults |->
        <<"Y","o","u","n","g"," ","A","d","u","l","t","s">>,
    Tech_savvy_professionals_25_35 |->
        <<"T","e","c","h","-","s","a","v","v","y"," ","p","r","o","f","e","s","s","i","o","n","a","l","s"," ","2","5","-","3","5">>,
    Middle_aged |->
        <<"M","i","d","d","l","e","-","a","g","e","d">>,
    Established_professionals_36_50 |->
        <<"E","s","t","a","b","l","i","s","h","e","d"," ","p","r","o","f","e","s","s","i","o","n","a","l","s"," ","3","6","-","5","0">>,
    Seniors |->
        <<"S","e","n","i","o","r","s">>,
    Mature_consumers_51 |->
        <<"M","a","t","u","r","e"," ","c","o","n","s","u","m","e","r","s"," ","5","1","+">>,
    Innovation_Adopters |->
        <<"I","n","n","o","v","a","t","i","o","n"," ","A","d","o","p","t","e","r","s">>,
    Early_adopters_of_new_technology |->
        <<"E","a","r","l","y"," ","a","d","o","p","t","e","r","s"," ","o","f"," ","n","e","w"," ","t","e","c","h","n","o","l","o","g","y">>,
    Quality_Focused |->
        <<"Q","u","a","l","i","t","y"," ","F","o","c","u","s","e","d">>,
    Premium_quality_seekers |->
        <<"P","r","e","m","i","u","m"," ","q","u","a","l","i","t","y"," ","s","e","e","k","e","r","s">>,
    Budget_Conscious |->
        <<"B","u","d","g","e","t"," ","C","o","n","s","c","i","o","u","s">>,
    Value_oriented_consumers |->
        <<"V","a","l","u","e","-","o","r","i","e","n","t","e","d"," ","c","o","n","s","u","m","e","r","s">>,
    Regular_Users |->
        <<"R","e","g","u","l","a","r"," ","U","s","e","r","s">>,
    Daily_active_users |->
        <<"D","a","i","l","y"," ","a","c","t","i","v","e"," ","u","s","e","r","s">>,
    Occasional_Users |->
        <<"O","c","c","a","s","i","o","n","a","l"," ","U","s","e","r","s">>,
    Periodic_usage_patterns |->
        <<"P","e","r","i","o","d","i","c"," ","u","s","a","g","e"," ","p","a","t","t","e","r","n","s">>,
    New_Users |->
        <<"N","e","w"," ","U","s","e","r","s">>,
    First_time_market_entrants |->
        <<"F","i","r","s","t","-","t","i","m","e"," ","m","a","r","k","e","t"," ","e","n","t","r","a","n","t","s">>,
    Enterprise_Clients |->
        <<"E","n","t","e","r","p","r","i","s","e"," ","C","l","i","e","n","t","s">>,
    Large_corporations_with_1000_employees |->
        <<"L","a","r","g","e"," ","c","o","r","p","o","r","a","t","i","o","n","s"," ","w","i","t","h"," ","1","0","0","0","+"," ","e","m","p","l","o","y","e","e","s">>,
    Enterprise |->
        <<"E","n","t","e","r","p","r","i","s","e">>,
    1000_employees |->
        <<"1","0","0","0","+"," ","e","m","p","l","o","y","e","e","s">>,
    Global_locations |->
        <<"G","l","o","b","a","l"," ","l","o","c","a","t","i","o","n","s">>,
    C_suite |->
        <<"C","-","s","u","i","t","e">>,
    1B_revenue |->
        <<"$","1","B","+"," ","r","e","v","e","n","u","e">>,
    Mid_Market_Companies |->
        <<"M","i","d","-","M","a","r","k","e","t"," ","C","o","m","p","a","n","i","e","s">>,
    Growing_companies_with_100_1000_employees |->
        <<"G","r","o","w","i","n","g"," ","c","o","m","p","a","n","i","e","s"," ","w","i","t","h"," ","1","0","0","-","1","0","0","0"," ","e","m","p","l","o","y","e","e","s">>,
    Mid_market |->
        <<"M","i","d","-","m","a","r","k","e","t">>,
    100_1000_employees |->
        <<"1","0","0","-","1","0","0","0"," ","e","m","p","l","o","y","e","e","s">>,
    Regional_presence |->
        <<"R","e","g","i","o","n","a","l"," ","p","r","e","s","e","n","c","e">>,
    Director_level |->
        <<"D","i","r","e","c","t","o","r"," ","l","e","v","e","l">>,
    10M_1B_revenue |->
        <<"$","1","0","M","-","$","1","B"," ","r","e","v","e","n","u","e">>,
    Small_Businesses |->
        <<"S","m","a","l","l"," ","B","u","s","i","n","e","s","s","e","s">>,
    Small_businesses_with_under_100_employees |->
        <<"S","m","a","l","l"," ","b","u","s","i","n","e","s","s","e","s"," ","w","i","t","h"," ","u","n","d","e","r"," ","1","0","0"," ","e","m","p","l","o","y","e","e","s">>,
    Small_business |->
        <<"S","m","a","l","l"," ","b","u","s","i","n","e","s","s">>,
    Under_100_employees |->
        <<"U","n","d","e","r"," ","1","0","0"," ","e","m","p","l","o","y","e","e","s">>,
    Local_presence |->
        <<"L","o","c","a","l"," ","p","r","e","s","e","n","c","e">>,
    Manager_level |->
        <<"M","a","n","a","g","e","r"," ","l","e","v","e","l">>,
    Under_10M_revenue |->
        <<"U","n","d","e","r"," ","$","1","0","M"," ","r","e","v","e","n","u","e">>,
    Technology_adoption |->
        <<"T","e","c","h","n","o","l","o","g","y"," ","a","d","o","p","t","i","o","n">>,
    Consumer_demand_growth |->
        <<"C","o","n","s","u","m","e","r"," ","d","e","m","a","n","d"," ","g","r","o","w","t","h">>,
    Basic_market_estimation |->
        <<"B","a","s","i","c"," ","m","a","r","k","e","t"," ","e","s","t","i","m","a","t","i","o","n">>,
    Fallback_position_analysis_for |->
        <<"F","a","l","l","b","a","c","k"," ","p","o","s","i","t","i","o","n"," ","a","n","a","l","y","s","i","s"," ","f","o","r"," ">>,
    driving_market_growth |->
        <<" ","d","r","i","v","i","n","g"," ","m","a","r","k","e","t"," ","g","r","o","w","t","h">>,
    Underserved_segments_in |->
        <<"U","n","d","e","r","s","e","r","v","e","d"," ","s","e","g","m","e","n","t","s"," ","i","n"," ">>,
    Technology_integration_opportunities |->
        <<"T","e","c","h","n","o","l","o","g","y"," ","i","n","t","e","g","r","a","t","i","o","n"," ","o","p","p","o","r","t","u","n","i","t","i","e","s">>,
    Partnership_potential_in |->
        <<"P","a","r","t","n","e","r","s","h","i","p"," ","p","o","t","e","n","t","i","a","l"," ","i","n"," ">>,
    Intense_competition_in |->
        <<"I","n","t","e","n","s","e"," ","c","o","m","p","e","t","i","t","i","o","n"," ","i","n"," ">>,
    Market_saturation_risks |->
        <<"M","a","r","k","e","t"," ","s","a","t","u","r","a","t","i","o","n"," ","r","i","s","k","s">>,
    Regulatory_challenges |->
        <<"R","e","g","u","l","a","t","o","r","y"," ","c","h","a","l","l","e","n","g","e","s">>,
    Economic_uncertainty |->
        <<"E","c","o","n","o","m","i","c"," ","u","n","c","e","r","t","a","i","n","t","y">>,
    Focus_on |->
        <<"F","o","c","u","s"," ","o","n"," ">>,
    segment_differentiation |->
        <<" ","s","e","g","m","e","n","t"," ","d","i","f","f","e","r","e","n","t","i","a","t","i","o","n">>,
    Leverage |->
        <<"L","e","v","e","r","a","g","e"," ">>,
    trends_for_growth |->
        <<" ","t","r","e","n","d","s"," ","f","o","r"," ","g","r","o","w","t","h">>,
    Build_strategic_partnerships_in |->
        <<"B","u","i","l","d"," ","s","t","r","a","t","e","g","i","c"," ","p","a","r","t","n","e","r","s","h","i","p","s"," ","i","n"," ">>,
    Invest_in |->
        <<"I","n","v","e","s","t"," ","i","n"," ">>,
    capabilities |->
        <<" ","c","a","p","a","b","i","l","i","t","i","e","s">>,
    low |->
        <<"l","o","w">>,
    Minimal_fallback_analysis |->
        <<"M","i","n","i","m","a","l"," ","f","a","l","l","b","a","c","k"," ","a","n","a","l","y","s","i","s">>,
    30_of_TAM |->
        <<"3","0","%"," ","o","f"," ","T","A","M",":"," ","$">>,
    10_of_SAM |->
        <<"1","0","%"," ","o","f"," ","S","A","M",":"," ","$">>]

(***************************************************************************)
(* Perspective and B2B classification (server.py:284-290, 713-719,         *)
(* 1073-1076)                                                              *)
(***************************************************************************)
\* bool(product_name and product_name.strip() and
\*      product_name.lower() not in [...])
has_specific_brand(product_name) ==
    /\ Len(product_name) > 0
    /\ Len(Strip(product_name)) > 0
    /\ Lower(product_name) \notin {FallbackText.new_product, FallbackText.new_service, FallbackText.startup,
                                   FallbackText.new_company}

analysis_perspective_of(market_input) ==
    IF has_specific_brand(market_input.product_name)
    THEN FallbackText.existing_brand ELSE FallbackText.new_entrant

\* any(term in market_input.industry.lower() for term in [...])
is_b2b(market_input) ==
    \E term \in {FallbackText.b2b, FallbackText.business, FallbackText.enterprise, FallbackText.saas, CuratedText.software,
                 CuratedText.financial_services, FallbackText.consulting, FallbackText.professional_services} :
        Contains(Lower(market_input.industry), term)

(***************************************************************************)
(* Number formatting: f"{n:,}"                                             *)
(***************************************************************************)
RECURSIVE NatToStr(_)
NatToStr(n) ==
    IF n < 10 THEN <<Digits[n + 1]>>
    ELSE NatToStr(n \div 10) \o <<Digits[(n % 10) + 1]>>

Pad3(n) == <<Digits[(n \div 100) + 1], Digits[((n \div 10) % 10) + 1],
             Digits[(n % 10) + 1]>>

RECURSIVE Commas(_)
Commas(n) ==
    IF n < 1000 THEN NatToStr(n)
    ELSE Commas(n \div 1000) \o <<",">> \o Pad3(n % 1000)

\* f"{dollars:,}" for an amount held in thousands of dollars
DollarsWithCommas(k) ==
    IF k = 0 THEN <<"0">> ELSE Commas(k) \o <<",","0","0","0">>

(***************************************************************************)
(* MarketIntelligenceAgent._get_fallback_analysis (server.py:708-966)      *)
(***************************************************************************)
\* int(x * p / 100), computed without leaving 32 bits, for the fractions
\* 0.4, 0.35, 0.25, 0.2, 0.3, 0.1 of the source.  (In Python's floating point int(5550000000 * 0.35) is one dollar
\* short of the exact product; that entry's segment sizes are exact here.)
Frac(x, pct) == (x \div 100) * pct + ((x % 100) * pct) \div 100

StrList(seq) == List([i \in 1..Len(seq) |-> Str(seq[i])])

\* one entry of the "competitors" list built by the fallback
FallbackCompetitor(name, share, s1, s2, w1, w2, range, tier, focus, market_input) ==
    Dict([name |-> Str(name), share |-> Num(share),
          strengths |-> StrList(<<s1, s2>>),
          weaknesses |-> StrList(<<w1, w2>>),
          price_range |-> Str(range), price_tier |-> Str(tier),
          innovation_focus |-> Str(focus),
          user_segment |-> Str(market_input.target_user)])

\* curated_data["competitors"][:5]
FirstFive(seq) == SubSeq(seq, 1, IF Len(seq) < 5 THEN Len(seq) ELSE 5)

\* the shares [0.25, 0.20, 0.15, 0.12, 0.10][i] of line 740
CuratedShares == <<250, 200, 150, 120, 100>>

RealCompetitorsOf(names, market_input) ==
    List([i \in 1..Len(names) |->
            FallbackCompetitor(names[i], CuratedShares[i],
                FallbackText.Market_presence, FallbackText.Brand_recognition,
                FallbackText.Competition, FallbackText.Market_saturation,
                FallbackText.v_150_400, FallbackText.Mid_Range, FallbackText.Market_growth, market_input)])

\* real_competitors of lines 736-747: the first five curated names
real_competitors(curated_data, market_input) ==
    RealCompetitorsOf(FirstFive(curated_data.competitors), market_input)

\* the list assigned to competitors at lines 757-798
generic_competitors(market_input) ==
    List(<<
        FallbackCompetitor(FallbackText.Market_Leader, 250,
            FallbackText.Market_dominance, FallbackText.Brand_recognition,
            FallbackText.High_pricing, FallbackText.Legacy_systems,
            FallbackText.v_200_500, FallbackText.Premium, FallbackText.Market_expansion, market_input),
        FallbackCompetitor(FallbackText.Technology_Innovator, 200,
            FallbackText.Innovation, FallbackText.Technology_leadership,
            FallbackText.Limited_market_reach, FallbackText.Resource_constraints,
            FallbackText.v_150_400, FallbackText.Mid_Range, FallbackText.Technology_advancement, market_input),
        FallbackCompetitor(FallbackText.Growth_Challenger, 150,
            FallbackText.Rapid_growth, FallbackText.Customer_focus,
            FallbackText.Scale_limitations, FallbackText.Brand_awareness,
            FallbackText.v_100_300, FallbackText.Mid_Range, FallbackText.Customer_experience, market_input),
        FallbackCompetitor(FallbackText.Value_Player, 100,
            FallbackText.Cost_efficiency, FallbackText.Accessibility,
            FallbackText.Limited_features, FallbackText.Low_margins,
            FallbackText.v_50_200, FallbackText.Budget, FallbackText.Cost_optimization, market_input) >>)

\* a fallback that synthesizes only the first two generic competitors
FirstTwoCompetitors(curated, market_input) ==
    List(SubSeq(generic_competitors(market_input).l, 1, 2))

\* The statement `competitors = [...]` of line 757 is indented at function
\* level, after the if/else of lines 727-756: it runs on both branches and
\* rebinds the name that line 748 bound to real_competitors(curated_data).
fallback_competitors(curated, market_input) ==
    generic_competitors(market_input)

FallbackSegment(name, description, size, growth, p1, p2) ==
    Dict([name |-> Str(name), description |-> Str(description),
          size |-> Num(size), growth |-> Num(growth),
          key_players |-> StrList(<<p1, p2>>)])

FirmographicSegment(name, description, size, growth, p1, p2, factors) ==
    Dict([name |-> Str(name), description |-> Str(description),
          size |-> Num(size), growth |-> Num(growth),
          key_players |-> StrList(<<p1, p2>>),
          firmographic_factors |-> StrList(factors)])

\* segmentation of lines 801-925
fallback_segmentation(sam, market_input) ==
    Dict([
      by_geographics |-> List(<<
        FallbackSegment(FallbackText.Major_Metro_Areas, FallbackText.Urban_markets_with_high_population_density,
            Frac(sam, 40), 70, FallbackText.Market_Leader, FallbackText.Technology_Innovator),
        FallbackSegment(FallbackText.Suburban_Markets, FallbackText.Suburban_areas_with_growing_populations,
            Frac(sam, 35), 90, FallbackText.Growth_Challenger, FallbackText.Value_Player),
        FallbackSegment(FallbackText.Secondary_Cities, FallbackText.Mid_size_cities_and_rural_areas,
            Frac(sam, 25), 110, FallbackText.Value_Player, FallbackText.Market_Leader) >>),
      by_demographics |-> List(<<
        FallbackSegment(FallbackText.Young_Adults, FallbackText.Tech_savvy_professionals_25_35,
            Frac(sam, 40), 100, FallbackText.Technology_Innovator, FallbackText.Growth_Challenger),
        FallbackSegment(FallbackText.Middle_aged, FallbackText.Established_professionals_36_50,
            Frac(sam, 40), 60, FallbackText.Market_Leader, FallbackText.Technology_Innovator),
        FallbackSegment(FallbackText.Seniors, FallbackText.Mature_consumers_51,
            Frac(sam, 20), 80, FallbackText.Market_Leader, FallbackText.Value_Player) >>),
      by_psychographics |-> List(<<
        FallbackSegment(FallbackText.Innovation_Adopters, FallbackText.Early_adopters_of_new_technology,
            Frac(sam, 40), 120, FallbackText.Technology_Innovator, FallbackText.Growth_Challenger),
        FallbackSegment(FallbackText.Quality_Focused, FallbackText.Premium_quality_seekers,
            Frac(sam, 40), 90, FallbackText.Market_Leader, FallbackText.Technology_Innovator),
        FallbackSegment(FallbackText.Budget_Conscious, FallbackText.Value_oriented_consumers,
            Frac(sam, 20), 50, FallbackText.Value_Player, FallbackText.Growth_Challenger) >>),
      by_behavioral |-> List(<<
        FallbackSegment(FallbackText.Regular_Users, FallbackText.Daily_active_users,
            Frac(sam, 40), 80, FallbackText.Market_Leader, FallbackText.Technology_Innovator),
        FallbackSegment(FallbackText.Occasional_Users, FallbackText.Periodic_usage_patterns,
            Frac(sam, 40), 60, FallbackText.Growth_Challenger, FallbackText.Value_Player),
        FallbackSegment(FallbackText.New_Users, FallbackText.First_time_market_entrants,
            Frac(sam, 20), 150, FallbackText.Growth_Challenger, FallbackText.Technology_Innovator) >>),
      by_firmographics |->
        IF is_b2b(market_input)
        THEN List(<<
          FirmographicSegment(FallbackText.Enterprise_Clients,
            FallbackText.Large_corporations_with_1000_employees,
            Frac(sam, 40), 60, FallbackText.Market_Leader, FallbackText.Technology_Innovator,
            <<FallbackText.Enterprise, FallbackText.1000_employees, FallbackText.Global_locations, FallbackText.C_suite,
              FallbackText.1B_revenue>>),
          FirmographicSegment(FallbackText.Mid_Market_Companies,
            FallbackText.Growing_companies_with_100_1000_employees,
            Frac(sam, 35), 90, FallbackText.Growth_Challenger, FallbackText.Technology_Innovator,
            <<FallbackText.Mid_market, FallbackText.100_1000_employees, FallbackText.Regional_presence,
              FallbackText.Director_level, FallbackText.10M_1B_revenue>>),
          FirmographicSegment(FallbackText.Small_Businesses,
            FallbackText.Small_businesses_with_under_100_employees,
            Frac(sam, 25), 120, FallbackText.Value_Player, FallbackText.Growth_Challenger,
            <<FallbackText.Small_business, FallbackText.Under_100_employees, FallbackText.Local_presence,
              FallbackText.Manager_level, FallbackText.Under_10M_revenue>>) >>)
        ELSE List(<<>>) ])

\* $1B default TAM of line 752, in thousands of dollars
DefaultFallbackTam == 1000000

\* **({"brand_position": ...} if analysis_perspective == "existing_brand"
\* else {}) of line 942
WithBrandPosition(common, analysis_perspective, market_input) ==
    IF analysis_perspective = FallbackText.existing_brand
    THEN Dict(("brand_position" :>
                 Str(FallbackText.Fallback_position_analysis_for \o market_input.product_name))
              @@ common)
    ELSE Dict(common)

\* the dict returned at lines 927-966, given the values of the locals
FallbackDict(market_input, analysis_perspective, competitors, tam, sam, som) ==
    WithBrandPosition([
          market_overview |-> Dict([
            total_market_size |-> Num(tam),
            growth_rate |-> Num(80),
            key_drivers |-> StrList(<<market_input.demand_driver,
                FallbackText.Technology_adoption, FallbackText.Market_expansion,
                FallbackText.Consumer_demand_growth>>),
            tam_methodology |-> Str(FallbackText.Basic_market_estimation),
            sam_calculation |-> Str(FallbackText.30_of_TAM \o DollarsWithCommas(sam)),
            som_estimation |-> Str(FallbackText.10_of_SAM \o DollarsWithCommas(som))]),
          analysis_perspective |-> Str(analysis_perspective),
          segmentation |-> fallback_segmentation(sam, market_input),
          competitors |-> competitors,
          opportunities |-> StrList(<<
            market_input.demand_driver \o FallbackText.driving_market_growth,
            FallbackText.Underserved_segments_in \o market_input.geography,
            FallbackText.Technology_integration_opportunities,
            FallbackText.Partnership_potential_in \o market_input.industry>>),
          threats |-> StrList(<<
            FallbackText.Intense_competition_in \o market_input.industry,
            FallbackText.Market_saturation_risks,
            FallbackText.Regulatory_challenges,
            FallbackText.Economic_uncertainty>>),
          recommendations |-> StrList(<<
            FallbackText.Focus_on \o market_input.target_user \o FallbackText.segment_differentiation,
            FallbackText.Leverage \o market_input.demand_driver \o FallbackText.trends_for_growth,
            FallbackText.Build_strategic_partnerships_in \o market_input.industry,
            FallbackText.Invest_in \o market_input.key_metrics \o FallbackText.capabilities>>),
          data_sources |-> StrList(<<FallbackText.Basic_market_estimation>>),
          confidence_level |-> Str(FallbackText.low),
          methodology |-> Str(FallbackText.Minimal_fallback_analysis)],
        analysis_perspective, market_input)

\* sam = int(tam * 0.3); som = int(sam * 0.1)   (lines 731-732, 753-754)
FallbackWithTam(market_input, analysis_perspective, competitors, tam) ==
    FallbackDict(market_input, analysis_perspective, competitors, tam,
                 Frac(tam, 30), Frac(Frac(tam, 30), 10))

\* lines 727-756: tam is the curated entry's, or the $1B default
FallbackWithCurated(market_input, curated) ==
    FallbackWithTam(market_input, analysis_perspective_of(market_input),
                    fallback_competitors(curated, market_input),
                    IF curated.found THEN curated.data.tam ELSE DefaultFallbackTam)

\* lines 721-725: the lookup is made with the lower-cased fields
curated_data_for(market_input) ==
    get_curated_market_data(Lower(market_input.product_name),
                            Lower(market_input.industry),
                            Lower(market_input.geography))

_get_fallback_analysis(market_input) ==
    FallbackWithCurated(market_input, curated_data_for(market_input))

(***************************************************************************)
(* String literals of generate_market_map (server.py:1066-1323)            *)
(***************************************************************************)
\* the string literals of generate_market_map (lines 1070-1323)
NormalizerText == [
    Segment |->
        <<"S","e","g","m","e","n","t">>,
    Market_segment |->
        <<"M","a","r","k","e","t"," ","s","e","g","m","e","n","t">>,
    Player_1 |->
        <<"P","l","a","y","e","r"," ","1">>,
    Player_2 |->
        <<"P","l","a","y","e","r"," ","2">>,
    User_Segment |->
        <<"U","s","e","r"," ","S","e","g","m","e","n","t">>,
    User_segment |->
        <<"U","s","e","r"," ","s","e","g","m","e","n","t">>,
    Company_A |->
        <<"C","o","m","p","a","n","y"," ","A">>,
    Company_B |->
        <<"C","o","m","p","a","n","y"," ","B">>,
    Price_Tier |->
        <<"P","r","i","c","e"," ","T","i","e","r">>,
    Price_segment |->
        <<"P","r","i","c","e"," ","s","e","g","m","e","n","t">>,
    Brand_X |->
        <<"B","r","a","n","d"," ","X">>,
    Brand_Y |->
        <<"B","r","a","n","d"," ","Y">>,
    Competitor |->
        <<"C","o","m","p","e","t","i","t","o","r">>,
    Strength_1 |->
        <<"S","t","r","e","n","g","t","h"," ","1">>,
    Strength_2 |->
        <<"S","t","r","e","n","g","t","h"," ","2">>,
    Weakness_1 |->
        <<"W","e","a","k","n","e","s","s"," ","1">>,
    Weakness_2 |->
        <<"W","e","a","k","n","e","s","s"," ","2">>,
    v_100_250 |->
        <<"$","1","0","0","-","$","2","5","0">>,
    Geographic_Segment |->
        <<"G","e","o","g","r","a","p","h","i","c"," ","S","e","g","m","e","n","t">>,
    Geographic_segment |->
        <<"G","e","o","g","r","a","p","h","i","c"," ","s","e","g","m","e","n","t">>,
    Demographic_Segment |->
        <<"D","e","m","o","g","r","a","p","h","i","c"," ","S","e","g","m","e","n","t">>,
    Demographic_segment |->
        <<"D","e","m","o","g","r","a","p","h","i","c"," ","s","e","g","m","e","n","t">>,
    Psychographic_Segment |->
        <<"P","s","y","c","h","o","g","r","a","p","h","i","c"," ","S","e","g","m","e","n","t">>,
    Psychographic_segment |->
        <<"P","s","y","c","h","o","g","r","a","p","h","i","c"," ","s","e","g","m","e","n","t">>,
    Behavioral_Segment |->
        <<"B","e","h","a","v","i","o","r","a","l"," ","S","e","g","m","e","n","t">>,
    Behavioral_segment |->
        <<"B","e","h","a","v","i","o","r","a","l"," ","s","e","g","m","e","n","t">>,
    Firmographic_Segment |->
        <<"F","i","r","m","o","g","r","a","p","h","i","c"," ","S","e","g","m","e","n","t">>,
    Firmographic_segment |->
        <<"F","i","r","m","o","g","r","a","p","h","i","c"," ","s","e","g","m","e","n","t">>,
    Digital_transformation |->
        <<"D","i","g","i","t","a","l"," ","t","r","a","n","s","f","o","r","m","a","t","i","o","n">>,
    Consumer_demand |->
        <<"C","o","n","s","u","m","e","r"," ","d","e","m","a","n","d">>,
    Industry_reports |->
        <<"I","n","d","u","s","t","r","y"," ","r","e","p","o","r","t","s">>,
    Market_research |->
        <<"M","a","r","k","e","t"," ","r","e","s","e","a","r","c","h">>,
    Public_data |->
        <<"P","u","b","l","i","c"," ","d","a","t","a">>,
    medium |->
        <<"m","e","d","i","u","m">>,
    AI_powered_analysis_with_market_research |->
        <<"A","I","-","p","o","w","e","r","e","d"," ","a","n","a","l","y","s","i","s"," ","w","i","t","h"," ","m","a","r","k","e","t"," ","r","e","s","e","a","r","c","h">>,
    Executive_summary_not_available |->
        <<"E","x","e","c","u","t","i","v","e"," ","s","u","m","m","a","r","y"," ","n","o","t"," ","a","v","a","i","l","a","b","l","e">>,
    Market_opportunity_1 |->
        <<"M","a","r","k","e","t"," ","o","p","p","o","r","t","u","n","i","t","y"," ","1">>,
    Market_opportunity_2 |->
        <<"M","a","r","k","e","t"," ","o","p","p","o","r","t","u","n","i","t","y"," ","2">>,
    Market_threat_1 |->
        <<"M","a","r","k","e","t"," ","t","h","r","e","a","t"," ","1">>,
    Market_threat_2 |->
        <<"M","a","r","k","e","t"," ","t","h","r","e","a","t"," ","2">>,
    Focus_on_differentiation |->
        <<"F","o","c","u","s"," ","o","n"," ","d","i","f","f","e","r","e","n","t","i","a","t","i","o","n">>,
    Build_partnerships |->
        <<"B","u","i","l","d"," ","p","a","r","t","n","e","r","s","h","i","p","s">>,
    Digital_marketing_expansion |->
        <<"D","i","g","i","t","a","l"," ","m","a","r","k","e","t","i","n","g"," ","e","x","p","a","n","s","i","o","n">>,
    Social_media_engagement |->
        <<"S","o","c","i","a","l"," ","m","e","d","i","a"," ","e","n","g","a","g","e","m","e","n","t">>,
    Competitor_digital_presence |->
        <<"C","o","m","p","e","t","i","t","o","r"," ","d","i","g","i","t","a","l"," ","p","r","e","s","e","n","c","e">>,
    Rising_advertising_costs |->
        <<"R","i","s","i","n","g"," ","a","d","v","e","r","t","i","s","i","n","g"," ","c","o","s","t","s">>,
    Invest_in_content_marketing |->
        <<"I","n","v","e","s","t"," ","i","n"," ","c","o","n","t","e","n","t"," ","m","a","r","k","e","t","i","n","g">>,
    Optimize_conversion_funnels |->
        <<"O","p","t","i","m","i","z","e"," ","c","o","n","v","e","r","s","i","o","n"," ","f","u","n","n","e","l","s">>,
    Industry_analysis |->
        <<"I","n","d","u","s","t","r","y"," ","a","n","a","l","y","s","i","s">>,
    AI_analysis |->
        <<"A","I"," ","a","n","a","l","y","s","i","s">>,
    None |->
        <<"N","o","n","e">>,
    1_MARKETING_CHALLENGE |->
        <<"*","*","1","."," ","M","A","R","K","E","T","I","N","G"," ","C","H","A","L","L","E","N","G","E","*","*">>,
    exec_How_can |->
        <<"\n"," "," "," "," "," "," "," "," "," "," "," "," "," "," "," "," ","H","o","w"," ","c","a","n"," ">>,
    exec_increase |->
        <<" ","i","n","c","r","e","a","s","e"," ","m","a","r","k","e","t"," ","s","h","a","r","e"," ","b","y"," ","1","5","-","2","5","%"," ","t","h","r","o","u","g","h"," ","e","n","h","a","n","c","e","d"," ","d","i","g","i","t","a","l"," ","m","a","r","k","e","t","i","n","g"," ","c","a","m","p","a","i","g","n","s"," ","a","n","d"," ","t","a","r","g","e","t","e","d"," ","a","d","v","e","r","t","i","s","i","n","g"," ","s","t","r","a","t","e","g","i","e","s"," ","w","i","t","h","i","n"," ","t","h","e"," ","n","e","x","t"," ","2","-","3"," ","y","e","a","r","s","?">>]

(***************************************************************************)
(* ComprehensiveAnalysisEngine.generate_market_map (server.py:1066-1323)   *)
(***************************************************************************)
\* str(source), for the values the model draws: a str is itself, None is
\* "None", an empty list or dict its two brackets (the repr of a non-empty
\* container or of a float is not modelled and is written "...")
Stringify(v) ==
    CASE v.t = "str"  -> v.s
      [] v.t = "null" -> NormalizerText.None
      [] v.t = "num"  -> IF v.n < 0 THEN <<"-">> \o NatToStr(0 - v.n) ELSE NatToStr(v.n)
      [] v.t = "list" -> IF Len(v.l) = 0 THEN <<"[","]">> ELSE <<"[",".",".",".","]">>
      [] v.t = "dict" -> IF DOMAIN v.d = {} THEN <<"{","}">> ELSE <<"{",".",".",".","}">>

\* Model(**d) for a model whose fields are Optional[str] = None (strKeys) or
\* List[str] = [] (listKeys); keys that are no field are ignored
SubModel(d, strKeys, listKeys) ==
    IF d.t # "dict" THEN Raise
    ELSE IF /\ \A k \in strKeys : ValidOptStr(Get(d, k, Null))
            /\ \A k \in listKeys : ValidStrList(Get(d, k, List(<<>>)))
         THEN Ok(Dict([k \in strKeys \cup listKeys |->
                         IF k \in strKeys THEN Get(d, k, Null)
                         ELSE Get(d, k, List(<<>>))]))
         ELSE Raise

ResonateBaseDemographics(d) ==
    SubModel(d, {"age_range", "gender", "household_income", "education",
                 "employment"}, {})
ResonateGeographics(d) ==
    SubModel(d, {"region", "market_size", "geography_type"}, {})
ResonateMediaUsage(d) ==
    SubModel(d, {"digital_engagement"}, {"primary_media", "content_preferences"})

\* ResonateSegmentMapping(...) of lines 1151-1157 over its five evaluated
\* arguments; a failed argument or validation is an exception
ResonateSegmentMapping(demographics, geographics, media_usage, resonate_taxonomy_paths, mapping_confidence) ==
    IF /\ demographics.ok /\ geographics.ok /\ media_usage.ok
       /\ ValidStrList(resonate_taxonomy_paths) /\ ValidOptStr(mapping_confidence)
    THEN Dict([demographics |-> demographics.v,
               geographics |-> geographics.v,
               media_usage |-> media_usage.v,
               resonate_taxonomy_paths |-> resonate_taxonomy_paths,
               mapping_confidence |-> mapping_confidence])
    ELSE Null

\* the try body of lines 1149-1157 for rm_data = seg["resonate_mapping"]
ResonateOf(rm_data) ==
    IF rm_data.t # "dict" THEN Null
    ELSE ResonateSegmentMapping(
           IF HasKey(rm_data, "demographics")
           THEN ResonateBaseDemographics(rm_data.d["demographics"]) ELSE Ok(Null),
           IF HasKey(rm_data, "geographics")
           THEN ResonateGeographics(rm_data.d["geographics"]) ELSE Ok(Null),
           IF HasKey(rm_data, "media_usage")
           THEN ResonateMediaUsage(rm_data.d["media_usage"]) ELSE Ok(Null),
           Get(rm_data, "resonate_taxonomy_paths", List(<<>>)),
           Get(rm_data, "mapping_confidence", Null))

\* the try/except of lines 1148-1160 (and 1174-1186, 1200-1212): any
\* exception inside it leaves resonate_mapping None
resonate_mapping_of(seg) ==
    IF ~HasKey(seg, "resonate_mapping") THEN Null
    ELSE ResonateOf(seg.d["resonate_mapping"])

\* the validation of MarketSegment(name=..., description=..., size_estimate=...,
\* growth_rate=..., key_players=..., resonate_mapping=...)
MkSegment(name, description, size, growth, key_players, resonate_mapping) ==
    IF /\ ValidStr(name) /\ ValidStr(description)
       /\ size.ok /\ growth.ok /\ ValidStrList(key_players)
    THEN Ok([name |-> name, description |-> description,
             size_estimate |-> Num(size.v),
             growth_rate |-> Num(growth.v),
             key_players |-> key_players,
             resonate_mapping |-> resonate_mapping])
    ELSE Raise

\* MarketSegment(name=seg.get("name", ...), ..., size_estimate=float(...),
\* growth_rate=float(...), key_players=seg.get("key_players", [...]))
MarketSegment(seg, dName, dDescription, dSize, dGrowth, dPlayers, withResonate) ==
    IF seg.t # "dict" THEN Raise
    ELSE MkSegment(Get(seg, "name", Str(dName)),
                   Get(seg, "description", Str(dDescription)),
                   FloatCast(Get(seg, "size", Num(dSize))),
                   FloatCast(Get(seg, "growth", Num(dGrowth))),
                   Get(seg, "key_players", StrList(dPlayers)),
                   IF withResonate THEN resonate_mapping_of(seg) ELSE Null)

\* a loop that appends one constructed object per element: it completes
\* only when every construction does
Collect(made) ==
    IF \A i \in 1..Len(made) : made[i].ok
    THEN Ok(List([i \in 1..Len(made) |-> made[i].v]))
    ELSE Raise

SegmentsOf(it, dName, dDescription, dSize, dGrowth, dPlayers, withResonate) ==
    IF ~it.ok THEN Raise
    ELSE Collect([i \in 1..Len(it.v) |->
                    MarketSegment(it.v[i], dName, dDescription, dSize,
                                  dGrowth, dPlayers, withResonate)])

\* one `for seg in segmentation.get(key, []): ....append(MarketSegment(...))`
SegmentLoop(segmentation, key, dName, dDescription, dSize, dGrowth, dPlayers, withResonate) ==
    SegmentsOf(Iter(Get(segmentation, key, List(<<>>))),
               dName, dDescription, dSize, dGrowth, dPlayers, withResonate)

\* the validation of Competitor(name=..., strengths=..., weaknesses=...,
\* market_share=..., price_range=...)
MkCompetitor(name, strengths, weaknesses, market_share, price_range) ==
    IF /\ ValidStr(name) /\ ValidStrList(strengths)
       /\ ValidStrList(weaknesses) /\ ValidOptFloat(market_share)
       /\ ValidOptStr(price_range)
    THEN Ok([name |-> name, strengths |-> strengths,
             weaknesses |-> weaknesses,
             market_share |-> CoerceOptFloat(market_share),
             price_range |-> price_range,
             price_tier |-> Null, innovation_focus |-> Null,
             user_segment |-> Null])
    ELSE Raise

\* Competitor(name=comp.get("name", "Competitor"), ...) of lines 1118-1126
Competitor(comp) ==
    IF comp.t # "dict" THEN Raise
    ELSE MkCompetitor(Get(comp, "name", Str(NormalizerText.Competitor)),
                      Get(comp, "strengths", StrList(<<NormalizerText.Strength_1, NormalizerText.Strength_2>>)),
                      Get(comp, "weaknesses", StrList(<<NormalizerText.Weakness_1, NormalizerText.Weakness_2>>)),
                      Get(comp, "share", Num(100)),
                      Get(comp, "price_range", Str(NormalizerText.v_100_250)))

CompetitorsOf(it) ==
    IF ~it.ok THEN Raise
    ELSE Collect([i \in 1..Len(it.v) |-> Competitor(it.v[i])])

\* for comp in competitors: competitor_objects.append(Competitor(...))
CompetitorLoop(competitors) == CompetitorsOf(Iter(competitors))

\* source.get("name", str(source)) if isinstance(source, dict) else str(source)
SourceName(source) ==
    IF source.t = "dict"
    THEN Get(source, "name", Str(Stringify(source)))
    ELSE Str(Stringify(source))

SourceNames(it) ==
    IF ~it.ok THEN Raise
    ELSE Ok(List([i \in 1..Len(it.v) |-> SourceName(it.v[i])]))

\* the list comprehension of lines 1254-1257
data_sources_of(ai_analysis) ==
    SourceNames(Iter(Get(ai_analysis, "data_sources",
                         StrList(<<NormalizerText.Industry_reports, NormalizerText.Market_research,
                                   NormalizerText.Public_data>>))))

\* if not opportunities: opportunities = ai_analysis.get(
\* "marketing_opportunities", [])
OrMarketing(opportunities, ai_analysis) ==
    IF ~Truthy(opportunities)
    THEN Get(ai_analysis, "marketing_opportunities", List(<<>>))
    ELSE opportunities

\* opportunities of lines 1081-1083
reconciled_opportunities(ai_analysis) ==
    OrMarketing(Get(ai_analysis, "opportunities", List(<<>>)), ai_analysis)

\* MarketMap(...) of lines 1232-1262 over its evaluated arguments, p: the
\* loops of lines 1087-1230 and the two float() calls completed, and the
\* fields validate.  (timestamp, datetime.utcnow(), is left out: no operation
\* reads it.)
MarketMap(market_input, ppc_intelligence, uuid, p) ==
    IF /\ p.functional_segments.ok /\ p.user_segments.ok /\ p.price_segments.ok
       /\ p.competitor_objects.ok
       /\ p.geographic_segments.ok /\ p.demographic_segments.ok
       /\ p.psychographic_segments.ok /\ p.behavioral_segments.ok
       /\ p.firmographic_segments.ok
       /\ p.total_market_size.ok /\ p.market_growth_rate.ok
       /\ ValidStrList(p.key_drivers)
       /\ ValidStr(p.analysis_perspective)
       /\ ValidOptStr(p.brand_position)
       /\ ValidStrList(p.opportunities)
       /\ ValidStrList(p.threats)
       /\ ValidStrList(p.recommendations)
       /\ ValidOptStrList(p.marketing_opportunities)
       /\ ValidOptStrList(p.marketing_threats)
       /\ ValidOptStrList(p.marketing_recommendations)
       /\ ValidOptDict(p.competitive_digital_assessment)
       /\ p.data_sources.ok
       /\ ValidStr(p.confidence_level)
       /\ ValidStr(p.methodology)
       /\ ValidStr(p.executive_summary)
    THEN Ok([id |-> Str(uuid),
             market_input_id |-> Str(market_input.id),
             total_market_size |-> Num(p.total_market_size.v),
             market_growth_rate |-> Num(p.market_growth_rate.v),
             key_drivers |-> p.key_drivers,
             analysis_perspective |-> p.analysis_perspective,
             brand_position |-> p.brand_position,
             segmentation_by_geographics |-> p.geographic_segments.v,
             segmentation_by_demographics |-> p.demographic_segments.v,
             segmentation_by_psychographics |-> p.psychographic_segments.v,
             segmentation_by_behavioral |-> p.behavioral_segments.v,
             segmentation_by_firmographics |-> p.firmographic_segments.v,
             competitors |-> p.competitor_objects.v,
             opportunities |-> p.opportunities,
             threats |-> p.threats,
             strategic_recommendations |-> p.recommendations,
             marketing_opportunities |-> p.marketing_opportunities,
             marketing_threats |-> p.marketing_threats,
             marketing_recommendations |-> p.marketing_recommendations,
             competitive_digital_assessment |-> p.competitive_digital_assessment,
             ppc_intelligence |->
                 IF Truthy(ppc_intelligence) THEN ppc_intelligence
                 ELSE EmptyDict,
             executive_summary |-> p.executive_summary,
             data_sources |-> p.data_sources.v,
             confidence_level |-> p.confidence_level,
             methodology |-> p.methodology])
    ELSE Raise

\* lines 1087-1262 for the locals market_overview and segmentation of lines
\* 1077-1078; a .get on a value that is no dict raises
MarketMapFrom(market_input, ai_analysis, ppc_intelligence, uuid, market_overview, segmentation) ==
    IF segmentation.t # "dict" \/ market_overview.t # "dict" THEN Raise
    ELSE MarketMap(market_input, ppc_intelligence, uuid, [
        functional_segments |->
            SegmentLoop(segmentation, "by_function", NormalizerText.Segment, NormalizerText.Market_segment,
                        1000000, 50, <<NormalizerText.Player_1, NormalizerText.Player_2>>, FALSE),
        user_segments |->
            SegmentLoop(segmentation, "by_user", NormalizerText.User_Segment, NormalizerText.User_segment,
                        500000, 60, <<NormalizerText.Company_A, NormalizerText.Company_B>>, FALSE),
        price_segments |->
            SegmentLoop(segmentation, "by_price", NormalizerText.Price_Tier, NormalizerText.Price_segment,
                        800000, 70, <<NormalizerText.Brand_X, NormalizerText.Brand_Y>>, FALSE),
        competitor_objects |->
            CompetitorLoop(Get(ai_analysis, "competitors", List(<<>>))),
        geographic_segments |->
            SegmentLoop(segmentation, "by_geographics", NormalizerText.Geographic_Segment,
                        NormalizerText.Geographic_segment, 1000000, 50,
                        <<NormalizerText.Company_A, NormalizerText.Company_B>>, FALSE),
        demographic_segments |->
            SegmentLoop(segmentation, "by_demographics", NormalizerText.Demographic_Segment,
                        NormalizerText.Demographic_segment, 1000000, 50,
                        <<NormalizerText.Company_A, NormalizerText.Company_B>>, TRUE),
        psychographic_segments |->
            SegmentLoop(segmentation, "by_psychographics", NormalizerText.Psychographic_Segment,
                        NormalizerText.Psychographic_segment, 1000000, 50,
                        <<NormalizerText.Company_A, NormalizerText.Company_B>>, TRUE),
        behavioral_segments |->
            SegmentLoop(segmentation, "by_behavioral", NormalizerText.Behavioral_Segment,
                        NormalizerText.Behavioral_segment, 1000000, 50,
                        <<NormalizerText.Company_A, NormalizerText.Company_B>>, TRUE),
        firmographic_segments |->
            SegmentLoop(segmentation, "by_firmographics", NormalizerText.Firmographic_Segment,
                        NormalizerText.Firmographic_segment, 1000000, 50,
                        <<NormalizerText.Company_A, NormalizerText.Company_B>>, FALSE),
        total_market_size |->
            FloatCast(Get(market_overview, "total_market_size", Num(5000000))),
        market_growth_rate |->
            FloatCast(Get(market_overview, "growth_rate", Num(80))),
        key_drivers |->
            Get(market_overview, "key_drivers",
                StrList(<<NormalizerText.Digital_transformation, NormalizerText.Consumer_demand>>)),
        analysis_perspective |->
            Get(ai_analysis, "analysis_perspective",
                Str(analysis_perspective_of(market_input))),
        brand_position |-> Get(ai_analysis, "brand_position", Null),
        opportunities |-> reconciled_opportunities(ai_analysis),
        threats |-> Get(ai_analysis, "threats", List(<<>>)),
        recommendations |-> Get(ai_analysis, "recommendations", List(<<>>)),
        marketing_opportunities |->
            Get(ai_analysis, "marketing_opportunities", List(<<>>)),
        marketing_threats |-> Get(ai_analysis, "marketing_threats", List(<<>>)),
        marketing_recommendations |->
            Get(ai_analysis, "marketing_recommendations", List(<<>>)),
        competitive_digital_assessment |->
            Get(ai_analysis, "competitive_digital_assessment", EmptyDict),
        data_sources |-> data_sources_of(ai_analysis),
        confidence_level |-> Get(ai_analysis, "confidence_level", Str(NormalizerText.medium)),
        methodology |->
            Get(ai_analysis, "methodology",
                Str(NormalizerText.AI_powered_analysis_with_market_research)),
        executive_summary |->
            Get(ai_analysis, "executive_summary",
                Str(NormalizerText.Executive_summary_not_available))])

\* the try body of lines 1070-1262: Ok(MarketMap) or Raise
market_map_try(market_input, ai_analysis, ppc_intelligence, uuid) ==
    IF ai_analysis.t # "dict" THEN Raise
    ELSE MarketMapFrom(market_input, ai_analysis, ppc_intelligence, uuid,
                       Get(ai_analysis, "market_overview", EmptyDict),
                       Get(ai_analysis, "segmentation", EmptyDict))

\* the MarketMap of the except branch, lines 1264-1323.  (Of the
\* executive_summary f-string only the first section is written out; the
\* other sections interpolate further fields of market_input and are read by
\* no operation.)
ExceptMarketMap(market_input, uuid, analysis_perspective) ==
        [id |-> Str(uuid),
         market_input_id |-> Str(market_input.id),
         total_market_size |-> Num(5000000),
         market_growth_rate |-> Num(80),
         key_drivers |-> StrList(<<FallbackText.Market_growth, FallbackText.Technology_adoption>>),
         analysis_perspective |-> Str(analysis_perspective),
         brand_position |->
             IF analysis_perspective = FallbackText.existing_brand
             THEN Str(FallbackText.Fallback_position_analysis_for \o market_input.product_name)
             ELSE Null,
         segmentation_by_geographics |-> List(<<>>),
         segmentation_by_demographics |-> List(<<>>),
         segmentation_by_psychographics |-> List(<<>>),
         segmentation_by_behavioral |-> List(<<>>),
         segmentation_by_firmographics |-> List(<<>>),
         competitors |-> List(<<>>),
         opportunities |-> StrList(<<NormalizerText.Market_opportunity_1, NormalizerText.Market_opportunity_2>>),
         threats |-> StrList(<<NormalizerText.Market_threat_1, NormalizerText.Market_threat_2>>),
         strategic_recommendations |->
             StrList(<<NormalizerText.Focus_on_differentiation, NormalizerText.Build_partnerships>>),
         marketing_opportunities |->
             StrList(<<NormalizerText.Digital_marketing_expansion, NormalizerText.Social_media_engagement>>),
         marketing_threats |->
             StrList(<<NormalizerText.Competitor_digital_presence, NormalizerText.Rising_advertising_costs>>),
         marketing_recommendations |->
             StrList(<<NormalizerText.Invest_in_content_marketing, NormalizerText.Optimize_conversion_funnels>>),
         competitive_digital_assessment |-> EmptyDict,
         ppc_intelligence |-> EmptyDict,
         executive_summary |->
             Str(NormalizerText.1_MARKETING_CHALLENGE \o NormalizerText.exec_How_can
                 \o market_input.product_name \o NormalizerText.exec_increase),
         data_sources |-> StrList(<<NormalizerText.Market_research, NormalizerText.Industry_analysis>>),
         confidence_level |-> Str(NormalizerText.medium),
         methodology |-> Str(NormalizerText.AI_analysis)]

market_map_except(market_input, uuid) ==
    ExceptMarketMap(market_input, uuid, analysis_perspective_of(market_input))

\* a normalizer whose try body never completes: every payload, the fallback
\* analysis included, ends in the except branch
ExceptAlways(tried, handled) ==
    [market_map |-> handled, log |-> <<"error_generating_market_map">>]

\* the try/except of lines 1070-1323: the MarketMap of the try body, or
\* after the logger.error of line 1265 the MarketMap of the except branch
TryExcept(tried, handled) ==
    IF tried.ok
    THEN [market_map |-> tried.v, log |-> <<>>]
    ELSE [market_map |-> handled, log |-> <<"error_generating_market_map">>]

\* generate_market_map: the MarketMap returned and the log records written
generate_market_map(market_input, ai_analysis, ppc_intelligence, uuid) ==
    TryExcept(market_map_try(market_input, ai_analysis, ppc_intelligence, uuid),
              market_map_except(market_input, uuid))

(***************************************************************************)
(* VisualMapGenerator.generate_visual_market_map (server.py:968-1065)      *)
(***************************************************************************)
\* the string literals of generate_visual_market_map and of Step 1.5
VisualText == [
    Market_Segmentation |->
        <<" ","M","a","r","k","e","t"," ","S","e","g","m","e","n","t","a","t","i","o","n">>,
    Geographic_market_segment |->
        <<"G","e","o","g","r","a","p","h","i","c"," ","m","a","r","k","e","t"," ","s","e","g","m","e","n","t">>,
    Demographic_market_segment |->
        <<"D","e","m","o","g","r","a","p","h","i","c"," ","m","a","r","k","e","t"," ","s","e","g","m","e","n","t">>,
    Psychographic_market_segment |->
        <<"P","s","y","c","h","o","g","r","a","p","h","i","c"," ","m","a","r","k","e","t"," ","s","e","g","m","e","n","t">>,
    Behavioral_market_segment |->
        <<"B","e","h","a","v","i","o","r","a","l"," ","m","a","r","k","e","t"," ","s","e","g","m","e","n","t">>,
    B2B_firmographic_segment |->
        <<"B","2","B"," ","f","i","r","m","o","g","r","a","p","h","i","c"," ","s","e","g","m","e","n","t">>,
    blue |->
        <<"b","l","u","e">>,
    green |->
        <<"g","r","e","e","n">>,
    teal |->
        <<"t","e","a","l">>,
    indigo |->
        <<"i","n","d","i","g","o">>,
    orange |->
        <<"o","r","a","n","g","e">>,
    red |->
        <<"r","e","d">>,
    purple |->
        <<"p","u","r","p","l","e">>,
    pink |->
        <<"p","i","n","k">>,
    yellow |->
        <<"y","e","l","l","o","w">>,
    amber |->
        <<"a","m","b","e","r">>,
    lime |->
        <<"l","i","m","e">>,
    emerald |->
        <<"e","m","e","r","a","l","d">>,
    violet |->
        <<"v","i","o","l","e","t">>,
    cyan |->
        <<"c","y","a","n">>,
    rose |->
        <<"r","o","s","e">>,
    slate |->
        <<"s","l","a","t","e">>,
    sky |->
        <<"s","k","y">>,
    Low_PPC_Data_Not_Available |->
        <<"L","o","w"," ","-"," ","P","P","C"," ","D","a","t","a"," ","N","o","t"," ","A","v","a","i","l","a","b","l","e">>,
    Demo_Data_SpyFu_Integration_Pending |->
        <<"D","e","m","o"," ","D","a","t","a"," ","-"," ","S","p","y","F","u"," ","I","n","t","e","g","r","a","t","i","o","n"," ","P","e","n","d","i","n","g">>]

\* "a" if i == 0 else "b" if i == 1 else "c" if i == 2 else "d", for the
\* 0-based index i of enumerate
ByIndex(i, four) == IF i <= 2 THEN four[i + 1] ELSE four[4]

\* the dict appended for segment number i (from 0) of one loop; the icon
\* literals of the source are empty strings
VisualSegment(segment, i, label, description, size, growth, colors) ==
    Dict([name |-> Get(segment, "name", Str(label \o <<" ">> \o NatToStr(i + 1))),
          description |-> Get(segment, "description", Str(description)),
          size |-> Get(segment, "size", Num(size)),
          growth |-> Get(segment, "growth", Num(growth)),
          icon |-> Str(<<>>),
          color |-> Str(ByIndex(i, colors)),
          key_players |-> Get(segment, "key_players", List(<<>>))])

VisualSegmentsOf(it, label, description, size, growth, colors) ==
    IF ~it.ok THEN Raise
    ELSE IF \E i \in 1..Len(it.v) : it.v[i].t # "dict" THEN Raise
    ELSE Ok(List([i \in 1..Len(it.v) |->
                    VisualSegment(it.v[i], i - 1, label, description, size,
                                  growth, colors)]))

\* one `for i, segment in enumerate(segments): visual_map[...].append({...})`
VisualLoop(segments, label, description, size, growth, colors) ==
    VisualSegmentsOf(Iter(segments), label, description, size, growth, colors)

\* the visual_map dict once the five loops of lines 990-1063 completed
VisualMapOf(market_data, product_name, geographic, demographic, psychographic, behavioral, firmographic) ==
    IF /\ geographic.ok /\ demographic.ok /\ psychographic.ok
       /\ behavioral.ok /\ firmographic.ok
    THEN Ok(Dict([title |-> Str(product_name \o VisualText.Market_Segmentation),
                  geographic_segments |-> geographic.v,
                  demographic_segments |-> demographic.v,
                  psychographic_segments |-> psychographic.v,
                  behavioral_segments |-> behavioral.v,
                  firmographic_segments |-> firmographic.v,
                  market_overview |->
                      Get(market_data, "market_overview", EmptyDict)]))
    ELSE Raise

VisualMapFrom(market_data, product_name, segmentation) ==
    IF segmentation.t # "dict" THEN Raise
    ELSE VisualMapOf(market_data, product_name,
           VisualLoop(Get(segmentation, "by_geographics", List(<<>>)),
                      NormalizerText.Geographic_Segment, VisualText.Geographic_market_segment,
                      1000000, 50, <<VisualText.blue, VisualText.green, VisualText.teal, VisualText.indigo>>),
           VisualLoop(Get(segmentation, "by_demographics", List(<<>>)),
                      NormalizerText.Demographic_Segment, VisualText.Demographic_market_segment,
                      500000, 60, <<VisualText.orange, VisualText.red, VisualText.purple, VisualText.pink>>),
           VisualLoop(Get(segmentation, "by_psychographics", List(<<>>)),
                      NormalizerText.Psychographic_Segment, VisualText.Psychographic_market_segment,
                      800000, 70, <<VisualText.yellow, VisualText.amber, VisualText.lime, VisualText.emerald>>),
           VisualLoop(Get(segmentation, "by_behavioral", List(<<>>)),
                      NormalizerText.Behavioral_Segment, VisualText.Behavioral_market_segment,
                      600000, 80, <<VisualText.violet, VisualText.cyan, VisualText.rose, VisualText.slate>>),
           VisualLoop(Get(segmentation, "by_firmographics", List(<<>>)),
                      NormalizerText.Firmographic_Segment, VisualText.B2B_firmographic_segment,
                      700000, 60, <<VisualText.teal, VisualText.cyan, VisualText.sky, VisualText.slate>>))

\* Ok(visual_map) or Raise: nothing in the function catches an exception
generate_visual_market_map(market_data, product_name) ==
    IF market_data.t # "dict" THEN Raise
    ELSE VisualMapFrom(market_data, product_name,
                       Get(market_data, "segmentation", EmptyDict))

(***************************************************************************)
(* MarketIntelligenceAgent.analyze_market_landscape (server.py:274-705)    *)
(*                                                                         *)
(* The generator (together_client.chat.completions.create) is the external *)
(* collaborator.  One behaviour of it is a record                          *)
(*   [kind |-> "raises"]      the call raises (network, timeout, API error) *)
(*   [kind |-> "no_content"]  message.content is None                      *)
(*   [kind |-> "never_responds"]  the call neither returns nor raises      *)
(*   [kind |-> "text", text |-> "empty" | "malformed" | "json",            *)
(*    first_parse_ok |-> BOOLEAN, tree |-> value]                          *)
(* For text that denotes a JSON value (bare or in a ``` fence, which lines *)
(* 650-655 strip), tree is the value json.loads returns and first_parse_ok *)
(* tells whether json.loads(sanitized_content) of line 673 already         *)
(* succeeds or only the emergency clean-up of lines 687-692 does.  Empty   *)
(* and malformed text fail both attempts.  The parse block is modelled at  *)
(* the level of the text under ParseSpec.                                  *)
(*                                                                         *)
(* The operators return the value and the sequence of log records the code *)
(* writes on the way (one token per logger call that marks a branch).      *)
(***************************************************************************)
\* log records of _get_fallback_analysis: lines 710, 729, 750
FallbackLogOf(curated) ==
    <<"using_fallback_analysis",
      IF curated.found THEN "using_curated_market_data"
      ELSE "no_curated_data_using_generic">>

fallback_log(market_input) == FallbackLogOf(curated_data_for(market_input))

\* `return self._get_fallback_analysis(market_input)` after the log records
\* of the branch that reached it
ReturnFallback(market_input, branch_log) ==
    [analysis |-> _get_fallback_analysis(market_input),
     log |-> branch_log \o fallback_log(market_input)]

analyze_market_landscape(market_input, client, gen) ==
    IF client # "none" /\ gen.kind = "text" /\ gen.text = "json"
    THEN [analysis |-> gen.tree,
          log |-> IF gen.first_parse_ok
                  THEN \* lines 672-676
                       <<"ai_response", "parsed_ai_analysis">>
                  ELSE \* lines 678-691
                       <<"ai_response", "json_parsing_error",
                         "emergency_cleanup_successful">>]
    ELSE ReturnFallback(market_input,
           IF client = "none"
           THEN \* lines 279-281
                <<"client_not_available">>
           ELSE IF gen.kind \in {"raises", "no_content"}
           THEN \* the outer except of lines 703-705
                <<"error_with_ai_analysis">>
           ELSE \* lines 692-697
                <<"ai_response", "json_parsing_error",
                  "emergency_cleanup_failed", "falling_back_to_curated_data">>)

(***************************************************************************)
(* The requests and generator payloads the model draws                     *)
(***************************************************************************)
\* the strings of the requests the model draws
RequestText == [
    Craft_Beer |->
        <<"C","r","a","f","t"," ","B","e","e","r">>,
    Food_Beverage |->
        <<"F","o","o","d"," ","&"," ","B","e","v","e","r","a","g","e">>,
    USA |->
        <<"U","S","A">>,
    Payment_Processing |->
        <<"P","a","y","m","e","n","t"," ","P","r","o","c","e","s","s","i","n","g">>,
    DTCC |->
        <<"D","T","C","C">>,
    Financial_Services |->
        <<"F","i","n","a","n","c","i","a","l"," ","S","e","r","v","i","c","e","s">>,
    Global |->
        <<"G","l","o","b","a","l">>,
    New_Product |->
        <<"N","e","w"," ","P","r","o","d","u","c","t">>,
    Consumer_Goods |->
        <<"C","o","n","s","u","m","e","r"," ","G","o","o","d","s">>,
    US |->
        <<"U","S">>,
    Acme_CRM |->
        <<"A","c","m","e"," ","C","R","M">>,
    Enterprise_Software |->
        <<"E","n","t","e","r","p","r","i","s","e"," ","S","o","f","t","w","a","r","e">>,
    Fitbit_tracker |->
        <<"F","i","t","b","i","t"," ","t","r","a","c","k","e","r">>,
    Wearable_Technology |->
        <<"W","e","a","r","a","b","l","e"," ","T","e","c","h","n","o","l","o","g","y">>,
    Consumers |->
        <<"C","o","n","s","u","m","e","r","s">>,
    Trends |->
        <<"T","r","e","n","d","s">>,
    Subscription |->
        <<"S","u","b","s","c","r","i","p","t","i","o","n">>,
    Revenue |->
        <<"R","e","v","e","n","u","e">>]

\* a MarketInput (server.py:65-76); benchmarks, output_format and timestamp
\* are read by no operation of the model
MkInput(id, product_name, industry, geography) ==
    [id |-> id, product_name |-> product_name, industry |-> industry,
     geography |-> geography, target_user |-> RequestText.Consumers,
     demand_driver |-> RequestText.Trends, transaction_type |-> RequestText.Subscription,
     key_metrics |-> RequestText.Revenue]

MarketInputs == {
    \* exact curated entry
    MkInput(<<"i","1">>, CuratedText.craft_beer, CuratedText.food_beverage, CuratedText.united_states),
    \* the same entry after lower(), strip() and the geography fold
    MkInput(<<"i","2">>, RequestText.Craft_Beer, RequestText.Food_Beverage, RequestText.USA),
    \* fuzzy curated hit (shared word, geography fold)
    MkInput(<<"i","3">>, RequestText.Fitbit_tracker, RequestText.Wearable_Technology, CuratedText.worldwide),
    \* no curated entry, B2B industry
    MkInput(<<"i","4">>, RequestText.DTCC, RequestText.Financial_Services, RequestText.Global),
    \* no curated entry, B2B industry
    MkInput(<<"i","5">>, RequestText.Acme_CRM, RequestText.Enterprise_Software, RequestText.Global),
    \* no curated entry, not B2B, stoplisted product name
    MkInput(<<"i","6">>, RequestText.New_Product, RequestText.Consumer_Goods, RequestText.US),
    \* exact curated entry of a B2B industry
    MkInput(<<"i","7">>, RequestText.Payment_Processing, RequestText.Financial_Services,
            RequestText.Global) }

\* the longest list of strings the generator payloads carry
MaxListLen == 2

\* <<prefix 1, ..., prefix n>> as a JSON list of strings
Numbered(prefix, n) == List([i \in 1..n |-> Str(<<prefix>> \o NatToStr(i))])

\* a key left out of a payload dict
Absent == [t |-> "absent"]
With(d, k, v) == Dict((k :> v) @@ d.d)
Without(d, k) == Dict([x \in DOMAIN d.d \ {k} |-> d.d[x]])
Put(d, k, v) == IF v = Absent THEN Without(d, k) ELSE With(d, k, v)

Txt(c) == Str(<<c>>)

BaseOverview ==
    Dict([total_market_size |-> Num(2000000), growth_rate |-> Num(90),
          key_drivers |-> Numbered("k", 1)])

BaseSegment ==
    Dict([name |-> Txt("n"), description |-> Txt("d"), size |-> Num(400000),
          growth |-> Num(60), key_players |-> Numbered("p", 1)])

BaseResonate ==
    Dict([demographics |-> Dict([age_range |-> Txt("a")]),
          resonate_taxonomy_paths |-> Numbered("x", 1),
          mapping_confidence |-> Txt("H")])

BaseSegmentation ==
    Dict([by_geographics |-> List(<<BaseSegment>>),
          by_demographics |-> List(<<With(BaseSegment, "resonate_mapping", BaseResonate)>>),
          by_psychographics |-> List(<<>>),
          by_behavioral |-> List(<<BaseSegment>>),
          by_firmographics |-> List(<<BaseSegment>>)])

BaseCompetitor ==
    Dict([name |-> Txt("c"), share |-> Num(300),
          strengths |-> Numbered("s", 1), weaknesses |-> Numbered("w", 1),
          price_range |-> Txt("$")])

BasePayload ==
    Dict([market_overview |-> BaseOverview,
          segmentation |-> BaseSegmentation,
          competitors |-> List(<<BaseCompetitor>>),
          opportunities |-> Numbered("o", 1),
          threats |-> Numbered("t", 1),
          recommendations |-> Numbered("r", 1),
          marketing_opportunities |-> Numbered("m", 1),
          marketing_threats |-> Numbered("u", 1),
          marketing_recommendations |-> Numbered("v", 1),
          competitive_digital_assessment |-> EmptyDict,
          executive_summary |-> Txt("e"),
          data_sources |-> List(<<Dict([name |-> Txt("G"), url |-> Txt("h")])>>),
          confidence_level |-> Str(CuratedText.high),
          methodology |-> Txt("M")])

\* values a list-of-strings key can carry
ListShapes(prefix) ==
    {Absent, Null, Txt("z")} \cup {Numbered(prefix, n) : n \in 0..MaxListLen}

\* BasePayload with one top-level key changed
TopVariants ==
    {Put(BasePayload, "market_overview", v) :
        v \in {Absent, Null, List(<<>>), EmptyDict,
               With(BaseOverview, "total_market_size", Str(<<"7","5","0">>)),
               With(BaseOverview, "total_market_size", Txt("z")),
               With(BaseOverview, "total_market_size", Null),
               With(BaseOverview, "growth_rate", Txt("z")),
               With(BaseOverview, "key_drivers", Null),
               Without(BaseOverview, "key_drivers")}}
    \cup {Put(BasePayload, "segmentation", v) :
        v \in {Absent, Null, List(<<>>), EmptyDict}}
    \cup {Put(BasePayload, "competitors", v) :
        v \in {Absent, Null, List(<<>>), List(<<Null>>), Txt("z"),
               List(<<Without(BaseCompetitor, "strengths")>>),
               List(<<Without(BaseCompetitor, "weaknesses")>>),
               List(<<With(BaseCompetitor, "strengths", List(<<>>))>>),
               List(<<With(BaseCompetitor, "weaknesses", List(<<>>))>>),
               List(<<With(BaseCompetitor, "strengths", Null)>>),
               List(<<With(BaseCompetitor, "share", Txt("z"))>>),
               List(<<With(BaseCompetitor, "share", Null)>>),
               List(<<Without(BaseCompetitor, "share")>>),
               List(<<BaseCompetitor, With(BaseCompetitor, "name", Txt("b"))>>)}}
    \cup {Put(BasePayload, k, v) :
        k \in {"threats", "recommendations", "marketing_threats",
               "marketing_recommendations"},
        v \in {Absent, Null, List(<<>>)}}
    \cup {Put(BasePayload, "data_sources", v) :
        v \in {Absent, Null, List(<<>>), Numbered("g", 1), List(<<Null>>),
               List(<<EmptyDict>>), List(<<Dict([name |-> Null])>>)}}
    \cup {Put(BasePayload, k, v) :
        k \in {"confidence_level", "methodology", "executive_summary"},
        v \in {Absent, Null}}
    \cup {Put(BasePayload, "competitive_digital_assessment", v) :
        v \in {Absent, Null, List(<<>>)}}
    \cup {Put(BasePayload, "analysis_perspective", v) :
        v \in {Str(FallbackText.existing_brand), Str(FallbackText.new_entrant), Txt("z"), Null}}
    \cup {Put(BasePayload, "brand_position", v) : v \in {Txt("b"), Null}}

\* BasePayload with one key of the segmentation, or of one segment, changed
SegmentVariants ==
    {With(BasePayload, "segmentation", Put(BaseSegmentation, k, v)) :
        k \in {"by_geographics", "by_firmographics"},
        v \in {Absent, Null, List(<<>>), List(<<Null>>), Txt("z")}}
    \cup {With(BasePayload, "segmentation",
               With(BaseSegmentation, "by_function", v)) :
        v \in {Null, List(<<BaseSegment>>)}}
    \cup {With(BasePayload, "segmentation",
               With(BaseSegmentation, "by_geographics", List(<<Put(BaseSegment, k, v)>>))) :
        k \in {"size", "growth"},
        v \in {Absent, Null, Txt("z"), Str(<<"1","2">>), Num(0), Num(0 - 5),
               Num(0 - 1500), Num(7000)}}
    \cup {With(BasePayload, "segmentation",
               With(BaseSegmentation, "by_geographics", List(<<Put(BaseSegment, k, v)>>))) :
        k \in {"name", "key_players"},
        v \in {Absent, Null}}
    \cup {With(BasePayload, "segmentation",
               With(BaseSegmentation, "by_demographics",
                    List(<<Put(BaseSegment, "resonate_mapping", v)>>))) :
        v \in {Absent, Null, EmptyDict,
               With(BaseResonate, "resonate_taxonomy_paths", Null),
               With(BaseResonate, "demographics", Null)}}

\* the reconciliation cases: every shape of opportunities with every shape of
\* marketing_opportunities, in a payload that is otherwise well-formed and in
\* one whose segmentation is null
OpportunityVariants ==
    {Put(Put(p, "opportunities", o), "marketing_opportunities", m) :
        p \in {BasePayload, With(BasePayload, "segmentation", Null)},
        o \in ListShapes("o"), m \in ListShapes("m")}

\* valid JSON whose top level is no object
NonObjectTrees == {Null, List(<<>>), Num(5), Txt("z")}

Trees == TopVariants \cup SegmentVariants \cup OpportunityVariants \cup NonObjectTrees

\* the quote escaping of line 668 leaves no text of an object with a key
\* parseable, so json.loads(sanitized_content) of line 673 returns no
\* object but the empty one
FirstParseCan(tree) == tree.t = "dict" => DOMAIN tree.d = {}

GeneratorBehaviours ==
    {[kind |-> "raises"], [kind |-> "no_content"], [kind |-> "never_responds"]}
    \cup {[kind |-> "text", text |-> x, first_parse_ok |-> FALSE, tree |-> Null] :
            x \in {"empty", "malformed"}}
    \cup {[kind |-> "text", text |-> "json", first_parse_ok |-> FALSE, tree |-> tr] :
            tr \in Trees}
    \cup {[kind |-> "text", text |-> "json", first_parse_ok |-> TRUE, tree |-> tr] :
            tr \in {x \in Trees : FirstParseCan(x)}}

\* the generator is not called when the client is not configured
NotCalled == [kind |-> "not_called"]

(***************************************************************************)
(* analyze_market (server.py:1330-1417): one request                       *)
(***************************************************************************)
VARIABLES
    market_input,       \* the request body
    together_client,    \* "configured" or "none" (server.py:45-53)
    generator,          \* what the generator does when it is called
    content,            \* the generator text analyze_market_landscape works on
    store,              \* what the document store does when it is written
    pc,                 \* the step of analyze_market the request is at
    ai_analysis,        \* Step 1
    ppc_intelligence,   \* Step 1.5
    market_map,         \* Step 2
    visual_map,         \* Step 3
    db_market_inputs,   \* db.market_inputs: the documents inserted, in order
    db_market_maps,     \* db.market_maps
    response,           \* Null while running, then the MarketAnalysis (200) or 500
    log,                \* the log records written, in order
    users,              \* db.users: the documents, in insertion order
    sessions,           \* db.sessions
    uuids,              \* how many User ids uuid.uuid4() has made
    now,                \* datetime.now(timezone.utc), in days
    calls               \* the auth_routes call each client is in, with its locals

vars == <<market_input, together_client, generator, content, store, pc, ai_analysis,
          ppc_intelligence, market_map, visual_map, db_market_inputs,
          db_market_maps, response, log, users, sessions, uuids, now, calls>>

\* the state of auth_routes.py
authVars == <<users, sessions, uuids, now, calls>>

\* the state of the analysis endpoints of server.py
marketVars == <<market_input, together_client, generator, content, store, pc, ai_analysis,
                ppc_intelligence, market_map, visual_map, db_market_inputs,
                db_market_maps, response, log>>

\* no user, no session and no call of auth_routes.py
NoAuthCalls ==
    /\ users = <<>>
    /\ sessions = <<>>
    /\ uuids = 0
    /\ now = 0
    /\ calls = <<>>

\* uuid.uuid4() of line 1233 / 1273 for the request
MapUuid(input) == <<"m">> \o input.id

\* db.market_inputs.insert_one and db.market_maps.insert_one (lines
\* 1395-1396) both succeed, or one of them raises
StoreBehaviours == {"ok", "market_inputs_fails", "market_maps_fails"}

Init ==
    /\ market_input \in MarketInputs
    /\ \/ together_client = "none" /\ generator = NotCalled
       \/ together_client = "configured" /\ generator \in GeneratorBehaviours
    /\ content = <<>>
    /\ store \in StoreBehaviours
    /\ pc = "step1"
    /\ ai_analysis = Null
    /\ ppc_intelligence = Null
    /\ market_map = Null
    /\ visual_map = Null
    /\ db_market_inputs = <<>>
    /\ db_market_maps = <<>>
    /\ response = Null
    /\ log = <<>>
    /\ NoAuthCalls

\* the assignment of line 1337 and the log records written by the call
Landed(r) ==
    /\ ai_analysis' = r.analysis
    /\ log' = log \o r.log

\* Step 1, the generator call.  The handler awaits analyze_market_landscape
\* (line 1337), which awaits
\* asyncio.to_thread(together_client.chat.completions.create, ...) (lines
\* 627-643): the client is built with an api_key only (lines 47-49), the call
\* is given no timeout and is not wrapped in asyncio.wait_for, so the handler
\* goes on when the generator has returned or raised, and only then.  No
\* call is made when the client is not configured (lines 279-281).
Step1_GeneratorCall ==
    /\ pc = "step1"
    /\ together_client # "none" => generator.kind # "never_responds"
    /\ pc' = "step1_answered"
    /\ UNCHANGED authVars
    /\ UNCHANGED <<market_input, together_client, generator, content, store, ai_analysis,
                   ppc_intelligence, market_map, visual_map, db_market_inputs,
                   db_market_maps, response, log>>

\* Step 1 (lines 1335-1338), from the generator's answer on
Step1_AnalyzeMarketLandscape ==
    /\ pc = "step1_answered"
    /\ Landed(analyze_market_landscape(market_input, together_client, generator))
    /\ pc' = "step1_5"
    /\ UNCHANGED authVars
    /\ UNCHANGED <<market_input, together_client, generator, content, store, ppc_intelligence,
                   market_map, visual_map, db_market_inputs, db_market_maps,
                   response>>

\* what Step 1.5 leaves in ppc_intelligence: the summary of the PPC report
\* (only the keys that do not depend on the report's rows are written out),
\* or the dict of the except branch (the text of str(e) is not modelled)
PpcReported ==
    Dict([paid_keywords_count |-> Num(0), competitors_count |-> Num(0),
          ad_history_count |-> Num(0), domain_stats |-> Null,
          confidence_level |-> Str(VisualText.Demo_Data_SpyFu_Integration_Pending)])
PpcFailed ==
    Dict([error |-> Txt("e"),
          confidence_level |-> Str(VisualText.Low_PPC_Data_Not_Available)])

\* Step 1.5 (lines 1340-1382): the PPC report succeeds or raises; both are
\* caught inside the step
Step1_5_PpcIntelligence ==
    /\ pc = "step1_5"
    /\ \E outcome \in {PpcReported, PpcFailed} :
        /\ ppc_intelligence' = outcome
        /\ log' = log \o <<IF outcome = PpcReported THEN "ppc_completed"
                           ELSE "ppc_failed">>
    /\ pc' = "step2"
    /\ UNCHANGED authVars
    /\ UNCHANGED <<market_input, together_client, generator, content, store, ai_analysis,
                   market_map, visual_map, db_market_inputs, db_market_maps,
                   response>>

\* the assignment of line 1386 and the log records written by the call
Mapped(r) ==
    /\ market_map' = r.market_map
    /\ log' = log \o r.log

\* Step 2 (lines 1384-1387)
Step2_GenerateMarketMap ==
    /\ pc = "step2"
    /\ Mapped(generate_market_map(market_input, ai_analysis, ppc_intelligence,
                                  MapUuid(market_input)))
    /\ pc' = "step3"
    /\ UNCHANGED authVars
    /\ UNCHANGED <<market_input, together_client, generator, content, store, ai_analysis,
                   ppc_intelligence, visual_map, db_market_inputs,
                   db_market_maps, response>>

\* the assignment of line 1391, or the except of lines 1414-1417
Drawn(r) ==
    IF r.ok
    THEN /\ visual_map' = r.v
         /\ pc' = "step4"
         /\ UNCHANGED <<response, log>>
    ELSE /\ response' = [status |-> 500]
         /\ log' = log \o <<"error_in_analyze_market">>
         /\ pc' = "done"
         /\ UNCHANGED visual_map

\* Step 3 (lines 1389-1392); an exception reaches the handler's except
\* (lines 1414-1417), which raises HTTPException(500)
Step3_GenerateVisualMap ==
    /\ pc = "step3"
    /\ Drawn(generate_visual_market_map(ai_analysis, market_input.product_name))
    /\ UNCHANGED authVars
    /\ UNCHANGED <<market_input, together_client, generator, content, store, ai_analysis,
                   ppc_intelligence, market_map, db_market_inputs, db_market_maps>>

\* Steps 4 and 5 (lines 1393-1412): two inserts, then the MarketAnalysis of
\* market_input, market_map and visual_map; an insert that raises reaches the
\* except of lines 1414-1417
Step4_SaveAndRespond ==
    /\ pc = "step4"
    /\ db_market_inputs' = IF store = "market_inputs_fails" THEN db_market_inputs
                           ELSE Append(db_market_inputs, market_input)
    /\ db_market_maps' = IF store = "ok" THEN Append(db_market_maps, market_map)
                         ELSE db_market_maps
    /\ response' = IF store = "ok"
                   THEN [status |-> 200, market_input |-> market_input,
                         market_map |-> market_map, visual_map |-> visual_map]
                   ELSE [status |-> 500]
    /\ log' = IF store = "ok" THEN log ELSE log \o <<"error_in_analyze_market">>
    /\ pc' = "done"
    /\ UNCHANGED authVars
    /\ UNCHANGED <<market_input, together_client, generator, content, store, ai_analysis,
                   ppc_intelligence, market_map, visual_map>>

Next ==
    \/ Step1_GeneratorCall
    \/ Step1_AnalyzeMarketLandscape
    \/ Step1_5_PpcIntelligence
    \/ Step2_GenerateMarketMap
    \/ Step3_GenerateVisualMap
    \/ Step4_SaveAndRespond

Spec == Init /\ [][Next]_vars

\* the requests of the fair runs: two inputs (a curated hit and a miss), every
\* behaviour of the generator and of the store, with one payload that is
\* well-formed and one that is no object
FairInit ==
    /\ Init
    /\ market_input.id \in {<<"i","1">>, <<"i","4">>}
    /\ generator.kind = "text" /\ generator.text = "json"
            => generator.tree \in {BasePayload, List(<<>>)}

\* the event loop resumes the handler's coroutine when the thread of the
\* generator call has finished: an answer that has come is taken up
FairSpec == FairInit /\ [][Next]_vars /\ WF_vars(Step1_GeneratorCall)

(***************************************************************************)
(* Properties of one analyze-market request                                *)
(***************************************************************************)
Has(seq, x) == \E i \in 1..Len(seq) : seq[i] = x

\* generate_market_map has returned: market_map holds the MarketMap
MapReturned == pc \in {"step3", "step4", "done"}

\* analyze_market_landscape returned what json.loads made of the
\* generator's text
PayloadParsed ==
    Has(log, "parsed_ai_analysis") \/ Has(log, "emergency_cleanup_successful")

\* the generator did not deliver parseable text: the client is not
\* configured, the call raised, the content was None, empty or malformed
GeneratorFailed ==
    \/ together_client = "none"
    \/ generator.kind \in {"raises", "no_content"}
    \/ generator.kind = "text" /\ generator.text \in {"empty", "malformed"}

\* the request's (product, industry, geography) has a curated entry
CuratedHit == curated_data_for(market_input).found

SegmentationFields ==
    {"segmentation_by_geographics", "segmentation_by_demographics",
     "segmentation_by_psychographics", "segmentation_by_behavioral",
     "segmentation_by_firmographics"}

ListFields ==
    SegmentationFields \cup
    {"key_drivers", "competitors", "opportunities", "threats",
     "strategic_recommendations", "marketing_opportunities",
     "marketing_threats", "marketing_recommendations", "data_sources"}

\* C1: for every request and every generator behaviour, the MarketMap that
\* analyze_market_landscape followed by generate_market_map returns has no
\* list field that is null (the marketing lists included).
C1_NoNullListField ==
    MapReturned => \A f \in ListFields : market_map[f] # Null

\* C2: whatever the generator does, a request whose persistence writes
\* succeed ends with the MarketAnalysis (status 200), never with an error.
C2_NeverAnErrorOutcome ==
    (pc = "done" /\ store = "ok") =>
        (response.status = 200 /\ response.market_map = market_map)

\* the log records that mark a failed step of the AI path: client not
\* configured, generator call error, all parse attempts failed, normalizer
\* failed on the payload
AiPathFailures ==
    {"client_not_available", "error_with_ai_analysis",
     "emergency_cleanup_failed", "error_generating_market_map"}

\* C3: when a step of the AI path has failed, the returned record comes from
\* the curated entry if the lookup hits and from the generic fallback only if
\* it misses; the lookup is made only after an AI-path failure, and generic
\* data only right after the lookup missed.
C3_FailureFallsThroughToCurated ==
    MapReturned =>
        /\ (\E i \in 1..Len(log) : log[i] \in AiPathFailures) =>
              /\ Has(log, "using_fallback_analysis")
              /\ CuratedHit =>
                    /\ Has(log, "using_curated_market_data")
                    /\ market_map.total_market_size =
                           Num(curated_data_for(market_input).data.tam)
              /\ ~CuratedHit =>
                    /\ Has(log, "no_curated_data_using_generic")
                    /\ market_map.total_market_size = Num(DefaultFallbackTam)
        /\ \A i \in 1..Len(log) :
              log[i] = "using_fallback_analysis" =>
                  \E j \in 1..(i - 1) : log[j] \in AiPathFailures
        /\ \A i \in 1..Len(log) :
              log[i] = "no_curated_data_using_generic" =>
                  i > 1 /\ log[i - 1] = "using_fallback_analysis"

\* C4: for a request without curated entry, if the generator fails the
\* returned MarketMap has confidence_level "low" and a methodology that
\* mentions fallback.
C4_FallbackIsLabelled ==
    (MapReturned /\ GeneratorFailed /\ ~CuratedHit) =>
        /\ market_map.confidence_level = Str(FallbackText.low)
        /\ market_map.methodology.t = "str"
        /\ Contains(Lower(market_map.methodology.s), <<"f","a","l","l","b","a","c","k">>)

\* a request without curated entry whose generator call raised, with the
\* MarketMap returned and labelled low
C4_Witness ==
    /\ pc = "step3"
    /\ ~CuratedHit
    /\ together_client = "configured" /\ generator.kind = "raises"
    /\ market_map.confidence_level = Str(FallbackText.low)
    /\ market_map.methodology = Str(FallbackText.Minimal_fallback_analysis)

\* the names of the competitors of the returned MarketMap
CompetitorNames ==
    {market_map.competitors.l[i].name.s :
        i \in 1..Len(market_map.competitors.l)}

\* C5: for a curated hit (the craft beer triple in particular), when the
\* generator fails the returned competitor list has at least 4 of the curated
\* entry's competitor names and total_market_size is the entry's market size.
C5_CuratedCompetitorsAndSize ==
    (MapReturned /\ GeneratorFailed /\ CuratedHit) =>
        /\ Cardinality(CompetitorNames \cap
             {curated_data_for(market_input).data.competitors[i] :
                i \in 1..Len(curated_data_for(market_input).data.competitors)}) >= 4
        /\ market_map.total_market_size =
               Num(curated_data_for(market_input).data.tam)

\* payload keys that generate_market_map copies into a field of the same
\* kind, and the field each goes to
CopiedKeys ==
    [confidence_level |-> "confidence_level", methodology |-> "methodology",
     executive_summary |-> "executive_summary", threats |-> "threats",
     recommendations |-> "strategic_recommendations"]

WellFormed(k, v) ==
    IF k \in {"threats", "recommendations"} THEN ValidStrList(v) ELSE ValidStr(v)

\* C6: the normalizer fails locally: whatever is wrong with one field of the
\* payload, every other field of the returned MarketMap still carries the
\* payload's value.
C6_FailureIsLocal ==
    (MapReturned /\ PayloadParsed /\ ai_analysis.t = "dict") =>
        \A k \in DOMAIN CopiedKeys :
            (HasKey(ai_analysis, k) /\ WellFormed(k, ai_analysis.d[k])) =>
                market_map[CopiedKeys[k]] = ai_analysis.d[k]

\* payload keys whose value is a list, and the list field each goes to
PayloadListKeys ==
    [competitors |-> "competitors", threats |-> "threats",
     recommendations |-> "strategic_recommendations",
     marketing_opportunities |-> "marketing_opportunities",
     marketing_threats |-> "marketing_threats",
     marketing_recommendations |-> "marketing_recommendations",
     data_sources |-> "data_sources"]

\* C7: in every returned MarketMap each list field, and each segment's
\* key_players, is a list; a list key that is missing from the payload or
\* holds no list comes out as the empty list.
C7_ListFieldsAreLists ==
    MapReturned =>
        /\ \A f \in ListFields : market_map[f].t = "list"
        /\ \A f \in SegmentationFields : \A i \in 1..Len(market_map[f].l) :
              market_map[f].l[i].key_players.t = "list"
        /\ (PayloadParsed /\ ai_analysis.t = "dict") =>
              \A k \in DOMAIN PayloadListKeys :
                  Get(ai_analysis, k, Absent).t # "list" =>
                      market_map[PayloadListKeys[k]] = List(<<>>)

\* C8: every Competitor of every returned MarketMap has at least one
\* strength and at least one weakness.
C8_CompetitorsHaveStrengthAndWeakness ==
    MapReturned =>
        \A i \in 1..Len(market_map.competitors.l) :
            /\ Len(market_map.competitors.l[i].strengths.l) >= 1
            /\ Len(market_map.competitors.l[i].weaknesses.l) >= 1

\* size_estimate >= 0 and -1.0 < growth_rate < 5.0 (rates in thousandths)
WithinSanityBounds(segment) ==
    /\ segment.size_estimate.n >= 0
    /\ segment.growth_rate.n > 0 - 1000
    /\ segment.growth_rate.n < 5000

\* C9: every MarketSegment of every returned MarketMap has size_estimate >= 0
\* and -1.0 < growth_rate < 5.0.
C9_SegmentsWithinSanityBounds ==
    MapReturned =>
        \A f \in SegmentationFields : \A i \in 1..Len(market_map[f].l) :
            WithinSanityBounds(market_map[f].l[i])

\* the reconciliation the payload's two lists o (opportunities) and m
\* (marketing_opportunities) call for
Reconciled(o, m) ==
    /\ (ValidStrList(o) /\ Len(o.l) > 0) => market_map.opportunities = o
    /\ ((o \in {Absent, List(<<>>)}) /\ ValidStrList(m)) =>
           market_map.opportunities = m
    /\ (o = Absent /\ m = Absent) => market_map.opportunities = List(<<>>)
    /\ (ValidStrList(o) /\ Len(o.l) > 0 /\ o # m) =>
           market_map.marketing_opportunities # o

\* C10: the normalized opportunities are the payload's opportunities when
\* that list is non-empty, the payload's marketing_opportunities when
\* opportunities is empty or missing, empty when both are missing; and
\* marketing_opportunities is never filled from opportunities.
C10_OpportunitiesReconciled ==
    (MapReturned /\ PayloadParsed /\ ai_analysis.t = "dict") =>
        Reconciled(Get(ai_analysis, "opportunities", Absent),
                   Get(ai_analysis, "marketing_opportunities", Absent))

\* C11: for an industry without B2B keyword, segmentation_by_firmographics
\* of the returned MarketMap is empty in every tier, whatever the payload.
C11_NoFirmographicsOutsideB2B ==
    (MapReturned /\ ~is_b2b(market_input)) =>
        market_map.segmentation_by_firmographics = List(<<>>)

\* C12: for an industry with a B2B keyword, segmentation_by_firmographics of
\* the returned MarketMap is non-empty whenever the record comes from the
\* generator's payload (AI tier) or from a curated entry (curated tier).
C12_FirmographicsForB2B ==
    (MapReturned /\ is_b2b(market_input) /\ (PayloadParsed \/ CuratedHit)) =>
        market_map.segmentation_by_firmographics # List(<<>>)

\* C13: when the generator fails and the curated lookup misses, the returned
\* MarketMap has confidence_level "low", at least 4 competitors each with a
\* strength and a weakness, and for a B2B industry a non-empty
\* segmentation_by_firmographics.
C13_GenericFallbackIsComplete ==
    (MapReturned /\ GeneratorFailed /\ ~CuratedHit) =>
        /\ market_map.confidence_level = Str(FallbackText.low)
        /\ Len(market_map.competitors.l) >= 4
        /\ \A i \in 1..Len(market_map.competitors.l) :
              /\ market_map.competitors.l[i].strengths.l # <<>>
              /\ market_map.competitors.l[i].weaknesses.l # <<>>
        /\ is_b2b(market_input) =>
              market_map.segmentation_by_firmographics # List(<<>>)

\* the DTCC request (Financial Services, Global: B2B, no curated entry) with
\* the client not configured, answered from the generic fallback
C13_Witness ==
    /\ pc = "done" /\ response.status = 200
    /\ market_input.product_name = RequestText.DTCC
    /\ together_client = "none"
    /\ Has(log, "no_curated_data_using_generic")
    /\ Len(response.market_map.competitors.l) = 4
    /\ Len(response.market_map.segmentation_by_firmographics.l) > 0

\* the perspective the product name alone calls for: existing_brand for a
\* non-empty name outside the stoplist (compared in lower case)
PerspectiveOfName(product_name) ==
    IF /\ product_name # <<>>
       /\ Lower(product_name) \notin
            {FallbackText.new_product, FallbackText.new_service,
             FallbackText.startup, FallbackText.new_company}
    THEN FallbackText.existing_brand
    ELSE FallbackText.new_entrant

\* C14: in every tier and for every payload, analysis_perspective of the
\* returned MarketMap is the one the product name calls for; it does not
\* depend on the generator's text.
C14_PerspectiveFromNameOnly ==
    MapReturned =>
        market_map.analysis_perspective =
            Str(PerspectiveOfName(market_input.product_name))

\* C15: in every returned MarketMap, brand_position is present (not null,
\* not empty) exactly when analysis_perspective is existing_brand.
C15_BrandPositionIffExistingBrand ==
    MapReturned =>
        ((market_map.brand_position.t = "str" /\ market_map.brand_position.s # <<>>)
            <=> market_map.analysis_perspective = Str(FallbackText.existing_brand))

\* the tier that produced the record of the request: the generator's
\* payload, a curated entry, or the generic fallback
TierOf(parsed, hit) ==
    IF parsed THEN "ai" ELSE IF hit THEN "curated" ELSE "generic"

Labels(map) == <<map.confidence_level, map.methodology>>

\* the labels of the record a request gets when the generator fails
FallbackLabels(input) ==
    Labels(generate_market_map(input, _get_fallback_analysis(input), Null,
                               MapUuid(input)).market_map)

\* C16: confidence_level and methodology are the ones the tier's analysis
\* carries (the normalizer neither sets nor defaults them), and a record of
\* another tier never carries the same pair.
C16_LabelsChosenByTier ==
    MapReturned =>
        /\ ai_analysis.t = "dict"
        /\ HasKey(ai_analysis, "confidence_level")
        /\ HasKey(ai_analysis, "methodology")
        /\ Labels(market_map) =
               <<ai_analysis.d["confidence_level"], ai_analysis.d["methodology"]>>
        /\ \A input \in MarketInputs :
               TierOf(FALSE, curated_data_for(input).found)
                       # TierOf(PayloadParsed, CuratedHit)
                   => FallbackLabels(input) # Labels(market_map)

(***************************************************************************)
(* The parse block of analyze_market_landscape at the level of the text    *)
(* (server.py:645-697)                                                     *)
(*                                                                         *)
(* A text is a tuple of characters.  The characters with no printable form *)
(* are written by their names: "SOH" is U+0001, "BS" U+0008, "FF" U+000C,  *)
(* "DEL" U+007F and "GRAVE" the grave accent U+0060 of a markdown fence;   *)
(* newline, carriage return and tab are the escapes of TLA+.               *)
(***************************************************************************)
\* json.loads (strict): the decoder of the standard library, for the JSON
\* grammar with integer numbers (no text the model draws has a fraction or
\* an exponent).  A scan returns the value and the position after it, or
\* Raise.
At(val, pos) == [ok |-> TRUE, v |-> val, next |-> pos]

\* json.decoder.WHITESPACE.match(s, i).end()
RECURSIVE SkipWs(_, _)
SkipWs(s, i) ==
    IF i <= Len(s) /\ s[i] \in {" ", "\t", "\n", "\r"} THEN SkipWs(s, i + 1) ELSE i

\* json.decoder.BACKSLASH: the character an escape denotes
BACKSLASH ==
    [c \in {"\"", "\\", "/", "b", "f", "n", "r", "t"} |->
        CASE c = "b" -> "BS" [] c = "f" -> "FF" [] c = "n" -> "\n"
          [] c = "r" -> "\r" [] c = "t" -> "\t" [] OTHER -> c]

\* json.decoder.py_scanstring: s[i] is the character after the opening
\* quote; a strict decoder refuses the characters below U+0020 in a string
RECURSIVE py_scanstring(_, _, _)
py_scanstring(s, i, acc) ==
    IF i > Len(s) THEN Raise
    ELSE IF s[i] = "\"" THEN At(Str(acc), i + 1)
    ELSE IF s[i] = "\\"
    THEN IF i + 1 <= Len(s) /\ s[i + 1] \in DOMAIN BACKSLASH
         THEN py_scanstring(s, i + 2, Append(acc, BACKSLASH[s[i + 1]]))
         ELSE Raise
    ELSE IF s[i] \in {"SOH", "BS", "FF", "\n", "\r", "\t"} THEN Raise
    ELSE py_scanstring(s, i + 1, Append(acc, s[i]))

\* the end of the run of digits that starts at i
RECURSIVE DigitsEnd(_, _)
DigitsEnd(s, i) == IF i <= Len(s) /\ IsDigit(s[i]) THEN DigitsEnd(s, i + 1) ELSE i

\* json.scanner.NUMBER_RE, integer part: 0, or a run of digits that starts
\* with 1-9
Number(s, sign, i) ==
    LET j == IF i <= Len(s) /\ s[i] = "0" THEN i + 1 ELSE DigitsEnd(s, i)
    IN  IF j = i THEN Raise ELSE At(Num(sign * DigitsVal(SubSeq(s, i, j - 1))), j)

\* the name of a key: the characters of the key as one string
RECURSIVE KeyOf(_)
KeyOf(chars) == IF chars = <<>> THEN "" ELSE Head(chars) \o KeyOf(Tail(chars))

\* null, true and false
Literal(s, i, word, val) ==
    IF StartsWith(SubSeq(s, i, Len(s)), word) THEN At(val, i + Len(word)) ELSE Raise

\* json.scanner.py_make_scanner._scan_once, json.decoder.JSONArray and
\* json.decoder.JSONObject
RECURSIVE scan_once(_, _)
RECURSIVE JSONArray(_, _, _)
RECURSIVE ArraySep(_, _, _)
RECURSIVE JSONObject(_, _, _)
RECURSIVE ObjectKey(_, _, _)
RECURSIVE ObjectSep(_, _, _, _)

scan_once(s, i) ==
    IF i > Len(s) THEN Raise
    ELSE CASE s[i] = "\"" -> py_scanstring(s, i + 1, <<>>)
           [] s[i] = "{" -> JSONObject(s, SkipWs(s, i + 1), EmptyDict.d)
           [] s[i] = "[" -> JSONArray(s, SkipWs(s, i + 1), <<>>)
           [] s[i] = "n" -> Literal(s, i, <<"n","u","l","l">>, Null)
           [] s[i] = "t" -> Literal(s, i, <<"t","r","u","e">>, [t |-> "bool", b |-> TRUE])
           [] s[i] = "f" -> Literal(s, i, <<"f","a","l","s","e">>, [t |-> "bool", b |-> FALSE])
           [] s[i] = "-" -> Number(s, 0 - 1, i + 1)
           [] OTHER -> Number(s, 1, i)

\* i is the first position after "[" that holds no whitespace
JSONArray(s, i, acc) ==
    IF i <= Len(s) /\ s[i] = "]" THEN At(List(acc), i + 1)
    ELSE ArraySep(s, scan_once(s, i), acc)

\* r is the scan of an element: "]" or "," and the next element follow
ArraySep(s, r, acc) ==
    IF ~r.ok \/ SkipWs(s, r.next) > Len(s) THEN Raise
    ELSE IF s[SkipWs(s, r.next)] = "]"
    THEN At(List(Append(acc, r.v)), SkipWs(s, r.next) + 1)
    ELSE IF s[SkipWs(s, r.next)] = ","
    THEN ArraySep(s, scan_once(s, SkipWs(s, SkipWs(s, r.next) + 1)), Append(acc, r.v))
    ELSE Raise

\* i is the first position after "{" that holds no whitespace
JSONObject(s, i, pairs) ==
    IF i <= Len(s) /\ s[i] = "}" THEN At(Dict(pairs), i + 1)
    ELSE IF i <= Len(s) /\ s[i] = "\""
    THEN ObjectKey(s, py_scanstring(s, i + 1, <<>>), pairs)
    ELSE Raise

\* key is the scan of a key: ":" and the value follow
ObjectKey(s, key, pairs) ==
    IF ~key.ok \/ SkipWs(s, key.next) > Len(s) THEN Raise
    ELSE IF s[SkipWs(s, key.next)] = ":"
    THEN ObjectSep(s, KeyOf(key.v.s),
                   scan_once(s, SkipWs(s, SkipWs(s, key.next) + 1)), pairs)
    ELSE Raise

\* r is the scan of the value of the key name: "}" or "," and the next key
\* follow; a key that comes twice keeps its last value
ObjectSep(s, name, r, pairs) ==
    IF ~r.ok \/ SkipWs(s, r.next) > Len(s) THEN Raise
    ELSE IF s[SkipWs(s, r.next)] = "}"
    THEN At(Dict((name :> r.v) @@ pairs), SkipWs(s, r.next) + 1)
    ELSE IF s[SkipWs(s, r.next)] = ","
            /\ SkipWs(s, SkipWs(s, r.next) + 1) <= Len(s)
            /\ s[SkipWs(s, SkipWs(s, r.next) + 1)] = "\""
    THEN ObjectKey(s, py_scanstring(s, SkipWs(s, SkipWs(s, r.next) + 1) + 1, <<>>),
                   (name :> r.v) @@ pairs)
    ELSE Raise

\* json.loads, JSONDecoder.decode: one value, and nothing but whitespace
\* after it
json_loads(s) ==
    LET r == scan_once(s, SkipWs(s, 1))
    IN  IF r.ok /\ SkipWs(s, r.next) > Len(s) THEN Ok(r.v) ELSE Raise

\* lines 650-658: the markdown fences are cut off, then the text is stripped
Fence == <<"GRAVE", "GRAVE", "GRAVE">>
clean_markdown(c) ==
    LET a == IF StartsWith(c, Fence \o <<"j","s","o","n">>)
             THEN SubSeq(c, 8, Len(c)) ELSE c
        b == IF EndsWith(a, Fence) THEN SubSeq(a, 1, Len(a) - 3) ELSE a
    IN  Strip(IF StartsWith(b, Fence) THEN SubSeq(b, 4, Len(b)) ELSE b)

\* line 666: .replace('\n', '\\n').replace('\r', '\\r').replace('\t', '\\t')
RECURSIVE EscapeLines(_)
EscapeLines(s) ==
    IF s = <<>> THEN <<>>
    ELSE (CASE Head(s) = "\n" -> <<"\\", "n">>
            [] Head(s) = "\r" -> <<"\\", "r">>
            [] Head(s) = "\t" -> <<"\\", "t">>
            [] OTHER -> <<Head(s)>>) \o EscapeLines(Tail(s))

\* line 668: the pattern (?<!\\)"(?=.*".*:) matches at i: a quote with no
\* backslash before it, which has after it on its line a quote and, after
\* that quote, a colon
QuoteMatches(s, i) ==
    /\ s[i] = "\""
    /\ (i = 1 \/ s[i - 1] # "\\")
    /\ \E j \in (i + 1)..Len(s) : \E k \in (j + 1)..Len(s) :
        /\ s[j] = "\""
        /\ s[k] = ":"
        /\ \A m \in (i + 1)..k : s[m] # "\n"

\* line 668: re.sub(..., '\\"', json_str): every match gets a backslash
RECURSIVE EscapeQuotesFrom(_, _)
EscapeQuotesFrom(s, i) ==
    IF i > Len(s) THEN <<>>
    ELSE (IF QuoteMatches(s, i) THEN <<"\\", "\"">> ELSE <<s[i]>>)
         \o EscapeQuotesFrom(s, i + 1)

\* sanitize_json_content (lines 661-669); line 664 removes the characters
\* of [\x00-\x08\x0B\x0C\x0E-\x1F\x7F]
sanitize_json_content(json_str) ==
    EscapeQuotesFrom(
        EscapeLines(SelectSeq(json_str, LAMBDA c : c \notin {"SOH", "BS", "FF", "DEL"})),
        1)

\* line 689: re.sub(r'\s+', ' ', emergency_clean)
RECURSIVE CollapseSpace(_, _)
CollapseSpace(s, i) ==
    IF i > Len(s) THEN <<>>
    ELSE IF s[i] # " " THEN <<s[i]>> \o CollapseSpace(s, i + 1)
    ELSE IF i > 1 /\ s[i - 1] = " " THEN CollapseSpace(s, i + 1)
    ELSE <<" ">> \o CollapseSpace(s, i + 1)

\* lines 688-689; line 688 is re.sub(r'[\x00-\x1F\x7F-\x9F]', ' ', content),
\* after which the only whitespace left is the space
emergency_clean(c) ==
    CollapseSpace([i \in 1..Len(c) |->
                      IF c[i] \in {"SOH", "BS", "FF", "DEL", "\n", "\r", "\t"}
                      THEN " " ELSE c[i]], 1)

(***************************************************************************)
(* The generator texts the model draws, and the parse block as the steps   *)
(* of one call                                                             *)
(***************************************************************************)
\* message.content of the generator's answer: valid JSON on one line and on
\* several, with one key and with more, and text that is no JSON
GeneratorText == [
    one_key |->
        <<"{","\"","a","\"",":"," ","1","}">>,
    two_keys |->
        <<"{","\"","a","\"",":"," ","1",","," ","\"","b","\"",":"," ","2","}">>,
    indented |->
        <<"{","\n"," "," ","\"","a","\"",":"," ","1",",","\n"," "," ","\"","b","\"",":"," ","[","2","]","\n","}">>,
    two_spaces |->
        <<"{","\"","a","\"",":"," ","\"","x"," "," ","y","\"","}">>,
    nested |->
        <<"{","\"","a","\"",":"," ","{","\"","b","\"",":"," ","[","1",","," ","\"","c","\"","]","}","}">>,
    opportunities |->
        <<"{","\"","o","p","p","o","r","t","u","n","i","t","i","e","s","\"",":"," ","[","\"","o","1","\"","]","}">>,
    empty_object |->
        <<"{","}">>,
    empty_list |->
        <<"[","]">>,
    list_of_strs |->
        <<"[","\"","x","\"",","," ","\"","y","\"","]">>,
    list_two_lines |->
        <<"[","1",",","\n","-","2","]">>,
    colon_last |->
        <<"[","\"","a","\"",","," ","\"","b",":","\"","]">>,
    number |->
        <<"5">>,
    string |->
        <<"\"","z","\"">>,
    null |->
        <<"n","u","l","l">>,
    escaped_newline |->
        <<"[","\"","x","\\","n","y","\"","]">>,
    raw_tab |->
        <<"\"","a","\t","b","\"">>,
    control_char |->
        <<"{","\"","a","\"",":"," ","\"","x","SOH","y","\"","}">>,
    prose |->
        <<"S","u","r","e",":"," ","{","\"","a","\"",":"," ","1","}">>,
    cut_short |->
        <<"{","\"","a","\"",":"," ">>,
    trailing_comma |->
        <<"[","1",",","]">>,
    empty |->
        <<>>]

\* a text as the generator gives it: bare, in a ```json fence, in a ```
\* fence, or with whitespace around it
GeneratorTexts ==
    UNION {{GeneratorText[k],
            Fence \o <<"j","s","o","n","\n">> \o GeneratorText[k] \o <<"\n">> \o Fence,
            Fence \o <<"\n">> \o GeneratorText[k] \o <<"\n">> \o Fence,
            <<" ", " ">> \o GeneratorText[k] \o <<"\n">>} : k \in DOMAIN GeneratorText}

\* one call of analyze_market_landscape with a configured client whose
\* generator answers with a text
ParseInit ==
    /\ market_input \in {m \in MarketInputs : m.id \in {<<"i","1">>, <<"i","4">>}}
    /\ together_client = "configured"
    /\ generator \in {[kind |-> "text", content |-> t] : t \in GeneratorTexts}
    /\ content = <<>>
    /\ store = "ok"
    /\ pc = "call"
    /\ ai_analysis = Null
    /\ ppc_intelligence = Null
    /\ market_map = Null
    /\ visual_map = Null
    /\ db_market_inputs = <<>>
    /\ db_market_maps = <<>>
    /\ response = Null
    /\ log = <<>>
    /\ NoAuthCalls

\* lines 645-658: .strip(), the fences, .strip()
Parse_CleanMarkdown ==
    /\ pc = "call"
    /\ content' = clean_markdown(Strip(generator.content))
    /\ log' = log \o <<"ai_response">>
    /\ pc' = "sanitize"
    /\ UNCHANGED authVars
    /\ UNCHANGED <<market_input, together_client, generator, store, ai_analysis,
                   ppc_intelligence, market_map, visual_map, db_market_inputs,
                   db_market_maps, response>>

\* the first attempt (lines 660-685): lines 672-676, or the except of line
\* 678
Parse_Sanitized ==
    /\ pc = "sanitize"
    /\ LET r == json_loads(sanitize_json_content(content))
       IN  IF r.ok
           THEN /\ Landed([analysis |-> r.v, log |-> <<"parsed_ai_analysis">>])
                /\ pc' = "returned"
           ELSE /\ log' = log \o <<"json_parsing_error">>
                /\ pc' = "emergency"
                /\ UNCHANGED ai_analysis
    /\ UNCHANGED authVars
    /\ UNCHANGED <<market_input, together_client, generator, content, store,
                   ppc_intelligence, market_map, visual_map, db_market_inputs,
                   db_market_maps, response>>

\* the second attempt (lines 686-691), and the fallback when it fails too
\* (lines 692-697)
Parse_Emergency ==
    /\ pc = "emergency"
    /\ LET r == json_loads(emergency_clean(content))
       IN  Landed(IF r.ok
                  THEN [analysis |-> r.v, log |-> <<"emergency_cleanup_successful">>]
                  ELSE ReturnFallback(market_input, <<"emergency_cleanup_failed",
                                                      "falling_back_to_curated_data">>))
    /\ pc' = "returned"
    /\ UNCHANGED authVars
    /\ UNCHANGED <<market_input, together_client, generator, content, store,
                   ppc_intelligence, market_map, visual_map, db_market_inputs,
                   db_market_maps, response>>

ParseNext ==
    \/ Parse_CleanMarkdown
    \/ Parse_Sanitized
    \/ Parse_Emergency

ParseSpec == ParseInit /\ [][ParseNext]_vars

(***************************************************************************)
(* Properties of the parse block                                           *)
(***************************************************************************)
\* C17: the parser tries the text as it is, then the sanitized text, then
\* the emergency-repaired text, and returns the value of the first attempt
\* that parses (so the strict parse of a text that is valid JSON, unchanged);
\* only when all three fail does the call fall back.
C17_FirstParsingAttemptIsReturned ==
    pc = "returned" =>
        IF json_loads(content).ok
        THEN ai_analysis = json_loads(content).v
        ELSE IF json_loads(sanitize_json_content(content)).ok
        THEN ai_analysis = json_loads(sanitize_json_content(content)).v
        ELSE IF json_loads(emergency_clean(content)).ok
        THEN ai_analysis = json_loads(emergency_clean(content)).v
        ELSE Has(log, "emergency_cleanup_failed")

\* C18: for a text that is valid JSON, strict parsing of the sanitized text
\* gives the value strict parsing of the text gives.
C18_SanitizerKeepsValidJson ==
    json_loads(content).ok =>
        json_loads(sanitize_json_content(content)) = json_loads(content)

(***************************************************************************)
(* Properties of the generator call                                        *)
(***************************************************************************)
\* C19: a generator call that gets no answer is abandoned after a bounded
\* wait and handled as a generator failure, so every request gets past the
\* generator call and goes on to its MarketMap.
C19_UnansweredCallIsAbandoned ==
    (pc = "step1") ~> (pc = "step1_answered")

(***************************************************************************)
(* get_analysis (server.py:1508-1557): reading one stored analysis          *)
(*                                                                         *)
(* A stored document is the dict of a MarketMap (market_map.dict(), line   *)
(* 1398): a record of its fields.  A document written before a field was  *)
(* added to the model lacks that key.                                      *)
(***************************************************************************)
\* the three assignments of lines 1525, 1527 and 1529 without their ifs
AlwaysDefaults(doc) ==
    [analysis_perspective |-> Str(FallbackText.new_entrant),
     brand_position |-> Null,
     segmentation_by_firmographics |-> List(<<>>)] @@ doc

\* lines 1521-1529 with the assignment of line 1525 made without its if
PerspectiveReset(doc) ==
    [analysis_perspective |-> Str(FallbackText.new_entrant)]
        @@ doc @@ [brand_position |-> Null,
                   segmentation_by_firmographics |-> List(<<>>)]

\* lines 1521-1529: dict(market_map) with the three defaults
market_map_data(doc) ==
    doc @@ [analysis_perspective |-> Str(FallbackText.new_entrant),
            brand_position |-> Null,
            segmentation_by_firmographics |-> List(<<>>)]

\* MarketMap(**market_map_data) (line 1534) for the model of lines 125-160:
\* a field with no default must be there, a field that is not gets its
\* default, and every value must have the type of its field (timestamp is
\* left out, as in MarketMap above)
StoredMarketMap(data) ==
    LET strs == {"id", "market_input_id", "analysis_perspective", "executive_summary",
                 "confidence_level", "methodology"}
        floats == {"total_market_size", "market_growth_rate"}
        strLists == {"key_drivers", "opportunities", "threats",
                     "strategic_recommendations", "data_sources"}
        objLists == {"segmentation_by_geographics", "segmentation_by_demographics",
                     "segmentation_by_psychographics", "segmentation_by_behavioral",
                     "segmentation_by_firmographics", "competitors"}
        d == data @@ [brand_position |-> Null,
                      marketing_opportunities |-> List(<<>>),
                      marketing_threats |-> List(<<>>),
                      marketing_recommendations |-> List(<<>>),
                      competitive_digital_assessment |-> EmptyDict,
                      ppc_intelligence |-> EmptyDict]
    IN  IF /\ (strs \cup floats \cup strLists \cup objLists) \subseteq DOMAIN data
           /\ \A k \in strs : ValidStr(data[k])
           /\ \A k \in floats : FloatCast(data[k]).ok
           /\ \A k \in strLists : ValidStrList(data[k])
           /\ \A k \in objLists : data[k].t = "list"
           /\ ValidOptStr(d.brand_position)
           /\ \A k \in {"marketing_opportunities", "marketing_threats",
                        "marketing_recommendations"} : ValidOptStrList(d[k])
           /\ \A k \in {"competitive_digital_assessment", "ppc_intelligence"} :
                  ValidOptDict(d[k])
        THEN Ok([k \in (strs \cup floats \cup strLists \cup objLists
                        \cup {"brand_position", "marketing_opportunities",
                              "marketing_threats", "marketing_recommendations",
                              "competitive_digital_assessment", "ppc_intelligence"}) |->
                    IF k \in floats THEN Num(FloatCast(d[k]).v) ELSE d[k]])
        ELSE Raise

\* lines 1532-1550 for the documents found: the MarketAnalysis of the two
\* models and of the visual map drawn from the stored segment lists; an
\* exception is answered with 500 (lines 1555-1557)
StoredAnalysis(market_input_doc, model, visual) ==
    IF model.ok /\ visual.ok
    THEN [status |-> 200, market_input |-> market_input_doc,
          market_map |-> model.v, visual_map |-> visual.v]
    ELSE [status |-> 500]

\* the segment dicts of market_map_data.get(key, []) (lines 1539-1545)
StoredSegments(data, key) ==
    IF key \in DOMAIN data /\ data[key].t = "list"
    THEN List([i \in 1..Len(data[key].l) |-> Dict(data[key].l[i])])
    ELSE IF key \in DOMAIN data THEN data[key] ELSE List(<<>>)

\* get_analysis: find_one on both collections (lines 1512-1518, 404 when a
\* document is missing), then lines 1521-1550
get_analysis(market_maps, market_inputs, analysis_id) ==
    LET maps == SelectSeq(market_maps, LAMBDA m : m.id = Str(analysis_id))
        inputs == IF maps = <<>> THEN <<>>
                  ELSE SelectSeq(market_inputs,
                                 LAMBDA m : Str(m.id) = maps[1].market_input_id)
    IN  IF maps = <<>> \/ inputs = <<>> THEN [status |-> 404]
        ELSE StoredAnalysis(inputs[1],
                 StoredMarketMap(market_map_data(maps[1])),
                 generate_visual_market_map(
                     Dict([segmentation |-> Dict([
                         by_geographics |->
                             StoredSegments(market_map_data(maps[1]), "segmentation_by_geographics"),
                         by_demographics |->
                             StoredSegments(market_map_data(maps[1]), "segmentation_by_demographics"),
                         by_psychographics |->
                             StoredSegments(market_map_data(maps[1]), "segmentation_by_psychographics"),
                         by_behavioral |->
                             StoredSegments(market_map_data(maps[1]), "segmentation_by_behavioral"),
                         by_firmographics |->
                             StoredSegments(market_map_data(maps[1]), "segmentation_by_firmographics")])]),
                     inputs[1].product_name))

\* the analyses in the store: the MarketMap analyze_market has written for a
\* request, by this version of the model or by one that did not have some of
\* analysis_perspective, brand_position and segmentation_by_firmographics
StoredAnalyses ==
    UNION {{LET w == generate_market_map(m, a, PpcReported, MapUuid(m)).market_map
            IN  [market_input |-> m,
                 market_map |-> [k \in DOMAIN w \ lacking |-> w[k]]] :
              a \in {BasePayload, Put(BasePayload, "brand_position", Txt("b")),
                     _get_fallback_analysis(m)},
              lacking \in SUBSET {"analysis_perspective", "brand_position",
                                  "segmentation_by_firmographics"}} :
           m \in {x \in MarketInputs : x.id \in {<<"i","1">>, <<"i","4">>, <<"i","7">>}}}

ReaderInit ==
    /\ \E s \in StoredAnalyses :
        /\ market_input = s.market_input
        /\ db_market_inputs = <<s.market_input>>
        /\ db_market_maps = <<s.market_map>>
    /\ together_client = "none"
    /\ generator = NotCalled
    /\ content = <<>>
    /\ store = "ok"
    /\ pc = "get_analysis"
    /\ ai_analysis = Null
    /\ ppc_intelligence = Null
    /\ market_map = Null
    /\ visual_map = Null
    /\ response = Null
    /\ log = <<>>
    /\ NoAuthCalls

\* GET /analysis/{analysis_id} for the id of a stored analysis or for one
\* that is not stored
GetAnalysis ==
    /\ pc = "get_analysis"
    /\ \E analysis_id \in {MapUuid(market_input), <<"n","o","n","e">>} :
        response' = get_analysis(db_market_maps, db_market_inputs, analysis_id)
    /\ pc' = "done"
    /\ UNCHANGED authVars
    /\ UNCHANGED <<market_input, together_client, generator, content, store, ai_analysis,
                   ppc_intelligence, market_map, visual_map, db_market_inputs,
                   db_market_maps, log>>

ReaderSpec == ReaderInit /\ [][GetAnalysis]_vars

(***************************************************************************)
(* Properties of get_analysis                                              *)
(***************************************************************************)
\* the three fields a document of an older version lacks, and their defaults
ReaderDefaults ==
    [analysis_perspective |-> Str(FallbackText.new_entrant),
     brand_position |-> Null,
     segmentation_by_firmographics |-> List(<<>>)]

\* C20: the record get_analysis returns for a stored analysis has the
\* default for each of analysis_perspective (new_entrant), brand_position
\* (null) and segmentation_by_firmographics (the empty list) that the stored
\* document lacks, and the stored value for every field the document has.
C20_DefaultsForAbsentOnly ==
    (pc = "done" /\ response.status # 404) =>
        /\ response.status = 200
        /\ \A k \in DOMAIN db_market_maps[1] :
            response.market_map[k] = db_market_maps[1][k]
        /\ \A k \in DOMAIN ReaderDefaults \ DOMAIN db_market_maps[1] :
            response.market_map[k] = ReaderDefaults[k]

\* a document that lacks one of the three fields and has another of them
\* with a value that is not its default has been read
C20_Witness ==
    /\ pc = "done"
    /\ response.status = 200
    /\ \E k \in DOMAIN ReaderDefaults \ DOMAIN db_market_maps[1] :
        response.market_map[k] = ReaderDefaults[k]
    /\ \E k \in DOMAIN ReaderDefaults \cap DOMAIN db_market_maps[1] :
        /\ db_market_maps[1][k] # ReaderDefaults[k]
        /\ response.market_map[k] = db_market_maps[1][k]


\* C21: filling the defaults twice gives the record that filling them once
\* gives, for the stored document and for the record get_analysis returns,
\* and a document that has the three fields is left as it is.
C21_ReaderIsIdempotent ==
    /\ \A i \in 1..Len(db_market_maps) :
        /\ market_map_data(market_map_data(db_market_maps[i]))
               = market_map_data(db_market_maps[i])
        /\ DOMAIN ReaderDefaults \subseteq DOMAIN db_market_maps[i]
               => market_map_data(db_market_maps[i]) = db_market_maps[i]
    /\ (pc = "done" /\ response.status = 200) =>
        /\ market_map_data(response.market_map) = response.market_map
        /\ StoredMarketMap(market_map_data(response.market_map))
               = Ok(response.market_map)

\* a document that lacks the three fields has been read, and the record
\* returned for it differs from the document
C21_Witness ==
    /\ pc = "done"
    /\ response.status = 200
    /\ DOMAIN ReaderDefaults \cap DOMAIN db_market_maps[1] = {}
    /\ market_map_data(db_market_maps[1]) # db_market_maps[1]

(***************************************************************************)
(* The other readers of the stored analyses (server.py:1419-1506,          *)
(* 1559-1784)                                                              *)
(*                                                                         *)
(* The answer of an export is modelled by its status and the documents its *)
(* body is written from: market_map is the document find_one gave, as the  *)
(* handler hands it to the sheet, the report or the persona loop.          *)
(***************************************************************************)
\* db.market_maps.find_one({"id": analysis_id}), then
\* db.market_inputs.find_one({"id": market_map["market_input_id"]})
\* (lines 1423-1429, 1484-1490, 1564-1570)
find_one(market_maps, market_inputs, analysis_id) ==
    LET maps == SelectSeq(market_maps, LAMBDA m : m.id = Str(analysis_id))
    IN  [market_map |-> maps,
         market_input |-> IF maps = <<>> THEN <<>>
                          ELSE SelectSeq(market_inputs,
                                         LAMBDA m : Str(m.id) = maps[1].market_input_id)]

\* export_market_map (lines 1419-1477): the HTTPException(404) of lines 1425
\* and 1429 is raised inside the try, whose one handler (line 1475) answers
\* every Exception with 500; the sheets read total_market_size,
\* market_growth_rate and competitors by subscript
export_market_map(found) ==
    IF found.market_map = <<>> \/ found.market_input = <<>> THEN [status |-> 500]
    ELSE IF {"total_market_size", "market_growth_rate", "competitors"}
                \subseteq DOMAIN found.market_map[1]
    THEN [status |-> 200, market_map |-> found.market_map[1],
          market_input |-> found.market_input[1]]
    ELSE [status |-> 500]

\* export_pdf (lines 1479-1506): as export_market_map, the handler of line
\* 1504 answers the HTTPException(404) with 500; create_market_report_pdf
\* gets the stored document (line 1493) and reads total_market_size and
\* market_growth_rate by subscript (pdf_generator.py:110-112)
export_pdf(found) ==
    IF found.market_map = <<>> \/ found.market_input = <<>> THEN [status |-> 500]
    ELSE IF {"total_market_size", "market_growth_rate"} \subseteq DOMAIN found.market_map[1]
    THEN [status |-> 200, market_map |-> found.market_map[1],
          market_input |-> found.market_input[1]]
    ELSE [status |-> 500]

\* export_personas (lines 1559-1759): the HTTPException is raised again
\* (line 1755); the personas are read with .get from the stored document
export_personas(found) ==
    IF found.market_map = <<>> \/ found.market_input = <<>> THEN [status |-> 404]
    ELSE [status |-> 200, market_map |-> found.market_map[1],
          market_input |-> found.market_input[1]]

\* get_analysis_history (lines 1761-1784): one entry for each stored map
\* whose input is found; result["total_market_size"] and
\* result["confidence_level"] are read by subscript
get_analysis_history(market_maps, market_inputs) ==
    LET results == SelectSeq(market_maps,
                       LAMBDA r : \E i \in 1..Len(market_inputs) :
                                      Str(market_inputs[i].id) = r.market_input_id)
    IN  IF \A i \in 1..Len(results) :
               {"id", "total_market_size", "confidence_level"} \subseteq DOMAIN results[i]
        THEN [status |-> 200, results |-> results,
              history |-> [i \in 1..Len(results) |->
                              [id |-> results[i].id,
                               market_size |-> results[i].total_market_size,
                               confidence_level |-> results[i].confidence_level]]]
        ELSE [status |-> 500]

\* the path parameter of a request: the id of the stored analysis, or one
\* that is not stored
AnalysisIds == {MapUuid(market_input), <<"n","o","n","e">>}

\* the store of ReaderInit, or that store with the MarketInput gone, and a
\* request to one of the five readers
ConsumerInit ==
    /\ \E s \in StoredAnalyses :
        /\ market_input = s.market_input
        /\ db_market_inputs \in {<<s.market_input>>, <<>>}
        /\ db_market_maps = <<s.market_map>>
    /\ together_client = "none"
    /\ generator = NotCalled
    /\ content = <<>>
    /\ store = "ok"
    /\ pc \in {"get_analysis", "export_market_map", "export_pdf", "export_personas",
               "get_analysis_history"}
    /\ ai_analysis = Null
    /\ ppc_intelligence = Null
    /\ market_map = Null
    /\ visual_map = Null
    /\ response = Null
    /\ log = <<>>
    /\ NoAuthCalls

ExportMarketMap ==
    /\ pc = "export_market_map"
    /\ \E analysis_id \in AnalysisIds :
        response' = export_market_map(find_one(db_market_maps, db_market_inputs, analysis_id))
    /\ pc' = "done"
    /\ UNCHANGED authVars
    /\ UNCHANGED <<market_input, together_client, generator, content, store, ai_analysis,
                   ppc_intelligence, market_map, visual_map, db_market_inputs,
                   db_market_maps, log>>

ExportPdf ==
    /\ pc = "export_pdf"
    /\ \E analysis_id \in AnalysisIds :
        response' = export_pdf(find_one(db_market_maps, db_market_inputs, analysis_id))
    /\ pc' = "done"
    /\ UNCHANGED authVars
    /\ UNCHANGED <<market_input, together_client, generator, content, store, ai_analysis,
                   ppc_intelligence, market_map, visual_map, db_market_inputs,
                   db_market_maps, log>>

ExportPersonas ==
    /\ pc = "export_personas"
    /\ \E analysis_id \in AnalysisIds :
        response' = export_personas(find_one(db_market_maps, db_market_inputs, analysis_id))
    /\ pc' = "done"
    /\ UNCHANGED authVars
    /\ UNCHANGED <<market_input, together_client, generator, content, store, ai_analysis,
                   ppc_intelligence, market_map, visual_map, db_market_inputs,
                   db_market_maps, log>>

GetAnalysisHistory ==
    /\ pc = "get_analysis_history"
    /\ response' = get_analysis_history(db_market_maps, db_market_inputs)
    /\ pc' = "done"
    /\ UNCHANGED authVars
    /\ UNCHANGED <<market_input, together_client, generator, content, store, ai_analysis,
                   ppc_intelligence, market_map, visual_map, db_market_inputs,
                   db_market_maps, log>>

ConsumerNext ==
    \/ GetAnalysis
    \/ ExportMarketMap
    \/ ExportPdf
    \/ ExportPersonas
    \/ GetAnalysisHistory

ConsumerSpec == ConsumerInit /\ [][ConsumerNext]_vars

(***************************************************************************)
(* Properties of the readers of the stored analyses                        *)
(***************************************************************************)
\* C22: every reader that has answered from a stored MarketMap has read a
\* document with the defaults of get_analysis: the document an export, the
\* persona export or the history is written from has analysis_perspective,
\* brand_position and segmentation_by_firmographics.
C22_ConsumersReadDefaults ==
    (pc = "done" /\ response.status = 200) =>
        /\ "market_map" \in DOMAIN response =>
               DOMAIN ReaderDefaults \subseteq DOMAIN response.market_map
        /\ "results" \in DOMAIN response =>
               \A i \in 1..Len(response.results) :
                   DOMAIN ReaderDefaults \subseteq DOMAIN response.results[i]

\* the answer of the reader named e to a request for the analysis id
AnswerOf(e, id) ==
    CASE e = "get_analysis" -> get_analysis(db_market_maps, db_market_inputs, id)
      [] e = "export_market_map" ->
             export_market_map(find_one(db_market_maps, db_market_inputs, id))
      [] e = "export_pdf" -> export_pdf(find_one(db_market_maps, db_market_inputs, id))
      [] e = "export_personas" ->
             export_personas(find_one(db_market_maps, db_market_inputs, id))
      [] OTHER -> Null

\* C27: a request to get_analysis, export_market_map, export_pdf or
\* export_personas for an id whose MarketMap or MarketInput is not stored
\* is answered with 404, and no request to them changes the store.
C27_MissingAnalysisIs404 ==
    [][(pc # "get_analysis_history" /\ pc' = "done") =>
          /\ db_market_maps' = db_market_maps
          /\ db_market_inputs' = db_market_inputs
          /\ \A id \in AnalysisIds :
                 (/\ response' = AnswerOf(pc, id)
                  /\ \/ find_one(db_market_maps, db_market_inputs, id).market_map = <<>>
                     \/ find_one(db_market_maps, db_market_inputs, id).market_input = <<>>)
                     => response'.status = 404]_vars

\* the segment list of the visual map for each segment list of a MarketMap
VisualKeyOf ==
    [segmentation_by_geographics |-> "geographic_segments",
     segmentation_by_demographics |-> "demographic_segments",
     segmentation_by_psychographics |-> "psychographic_segments",
     segmentation_by_behavioral |-> "behavioral_segments",
     segmentation_by_firmographics |-> "firmographic_segments"]

\* C30: in the answer of get_analysis for a stored analysis, every segment
\* of the rebuilt visual map has the size_estimate of the stored segment it
\* is drawn from as its size, and its growth_rate as its growth.
C30_RebuiltVisualMapAgrees ==
    (pc = "done" /\ response.status = 200 /\ "visual_map" \in DOMAIN response) =>
        \A k \in DOMAIN VisualKeyOf :
            /\ Len(response.visual_map.d[VisualKeyOf[k]].l) = Len(response.market_map[k].l)
            /\ \A i \in 1..Len(response.market_map[k].l) :
                /\ response.visual_map.d[VisualKeyOf[k]].l[i].d.size
                       = response.market_map[k].l[i].size_estimate
                /\ response.visual_map.d[VisualKeyOf[k]].l[i].d.growth
                       = response.market_map[k].l[i].growth_rate

(***************************************************************************)
(* get_curated_market_data on its own (server.py:171-272)                  *)
(***************************************************************************)
\* product names of a request: an exact key in another case and with a
\* blank after it, the empty name, a word of a key, a name that shares the
\* word "craft" with a key, a name whose word "raft" is inside a key, a name
\* inside two keys, and names with no entry
LookupProducts == {
    <<"C","r","a","f","t"," ","B","e","e","r"," ">>,
    <<>>,
    <<"b","e","e","r">>,
    <<"c","r","a","f","t"," ","a","l","e">>,
    <<"r","a","f","t"," ","b","o","a","t","s">>,
    <<"e","v","e","n","t">>,
    <<"F","i","t","b","i","t"," ","t","r","a","c","k","e","r">>,
    <<"D","T","C","C">>,
    <<"p","a","y","m","e","n","t"," ","p","r","o","c","e","s","s","i","n","g">> }

\* industries of a request: keys of the table, a part of a key, the three
\* synonyms of line 257-259, the empty industry and one with no entry
LookupIndustries == {
    <<"F","o","o","d"," ","&"," ","B","e","v","e","r","a","g","e">>,
    <<"f","o","o","d">>,
    <<"e","v","e","n","t"," ","s","e","r","v","i","c","e","s">>,
    <<"f","i","n","t","e","c","h">>,
    <<"t","e","c","h","n","o","l","o","g","y">>,
    <<"w","e","a","r","a","b","l","e"," ","t","e","c","h","n","o","l","o","g","y">>,
    <<"f","i","n","a","n","c","i","a","l"," ","s","e","r","v","i","c","e","s">>,
    <<>>,
    <<"r","e","t","a","i","l">> }

\* geographies of a request: the names the fold of lines 228-231 knows, and
\* one it does not
LookupGeographies == {
    <<"u","n","i","t","e","d"," ","s","t","a","t","e","s">>,
    <<"U","S","A">>,
    <<"u","s">>,
    <<"A","m","e","r","i","c","a">>,
    <<"U","n","i","t","e","d"," ","S","t","a","t","e","s"," ","o","f"," ","A","m","e","r","i","c","a">>,
    <<"g","l","o","b","a","l">>,
    <<"W","o","r","l","d","w","i","d","e">>,
    <<"i","n","t","e","r","n","a","t","i","o","n","a","l">>,
    <<"f","r","a","n","c","e">> }

CuratedInit ==
    /\ \E p \in LookupProducts, i \in LookupIndustries, g \in LookupGeographies :
        market_input = MkInput(<<"q">>, p, i, g)
    /\ together_client = "none"
    /\ generator = NotCalled
    /\ content = <<>>
    /\ store = "ok"
    /\ pc = "get_curated_market_data"
    /\ ai_analysis = Null
    /\ ppc_intelligence = Null
    /\ market_map = Null
    /\ visual_map = Null
    /\ db_market_inputs = <<>>
    /\ db_market_maps = <<>>
    /\ response = Null
    /\ log = <<>>
    /\ NoAuthCalls

\* curated_data = MarketIntelligenceAgent.get_curated_market_data(
\*     market_input.product_name, market_input.industry, market_input.geography)
CuratedLookup ==
    /\ pc = "get_curated_market_data"
    /\ response' = get_curated_market_data(market_input.product_name, market_input.industry,
                                           market_input.geography)
    /\ pc' = "done"
    /\ UNCHANGED authVars
    /\ UNCHANGED <<market_input, together_client, generator, content, store, ai_analysis,
                   ppc_intelligence, market_map, visual_map, db_market_inputs,
                   db_market_maps, log>>

CuratedSpec == CuratedInit /\ [][CuratedLookup]_vars

(***************************************************************************)
(* Properties of get_curated_market_data                                   *)
(***************************************************************************)
\* the geography fold as the rule states it: us, usa and united states of
\* america become united states; worldwide and international become global
StatedFold(geography_key) ==
    IF geography_key \in {CuratedText.us, CuratedText.usa, CuratedText.united_states_of_america}
    THEN CuratedText.united_states
    ELSE IF geography_key \in {CuratedText.worldwide, CuratedText.international}
         THEN CuratedText.global
         ELSE geography_key

\* the product match as the rule states it: one non-empty string contains
\* the other, or the two share a word longer than 3 characters
StatedProductMatch(product_key, key_product) ==
    \/ /\ product_key # <<>>
       /\ key_product # <<>>
       /\ Contains(key_product, product_key) \/ Contains(product_key, key_product)
    \/ \E word \in Words(product_key) \cap Words(key_product) : Len(word) > 3

\* the lookup as the rule states it, for the keys of one request
StatedLookup(product_key, industry_key, geography_key) ==
    FirstEntry(market_segments,
        {i \in 1..Len(market_segments) :
            market_segments[i].key = <<product_key, industry_key, geography_key>>},
        {i \in 1..Len(market_segments) :
            /\ StatedProductMatch(product_key, market_segments[i].key[1])
            /\ industry_match(industry_key, market_segments[i].key[2])
            /\ geography_match(geography_key, market_segments[i].key[3])})

\* C24: get_curated_market_data returns what the stated rule gives for the
\* lowercased and trimmed product, industry and folded geography: the entry
\* of the exact triple, else the first entry in table order whose product
\* (containment between non-empty strings, or a shared word longer than 3
\* characters), industry and geography match, else nothing.
C24_CuratedLookupAsStated ==
    pc = "done" =>
        response = StatedLookup(Strip(Lower(market_input.product_name)),
                                Strip(Lower(market_input.industry)),
                                StatedFold(Strip(Lower(market_input.geography))))

(***************************************************************************)
(* Step 4 of analyze_market under concurrent requests (server.py:1393-1400)*)
(*                                                                         *)
(* Each request is a coroutine of the one event loop: the two inserts are   *)
(* two awaits, and the steps of other requests run between them.  In this  *)
(* specification market_input, market_map, store, pc and response hold one *)
(* value for each request.                                                 *)
(***************************************************************************)
Requests == {"r1", "r2"}

\* the id of the MarketMap of a request: uuid.uuid4() (line 1233) is new
\* for every call
RequestUuid(r) == <<"u", r>>

\* two requests that have reached Step 4, each with a MarketInput (the id
\* comes with the request body, so both may carry the same one), its
\* MarketMap, and a behaviour of the store for its inserts
StoreInit ==
    /\ market_input \in [Requests -> {x \in MarketInputs : x.id \in {<<"i","1">>, <<"i","4">>}}]
    /\ market_map = [r \in Requests |->
           generate_market_map(market_input[r], _get_fallback_analysis(market_input[r]),
                               PpcReported, RequestUuid(r)).market_map]
    /\ store \in [Requests -> StoreBehaviours]
    /\ pc = [r \in Requests |-> "step4a"]
    /\ response = [r \in Requests |-> Null]
    /\ db_market_inputs = <<>>
    /\ db_market_maps = <<>>
    /\ together_client = "none"
    /\ generator = NotCalled
    /\ content = <<>>
    /\ ai_analysis = Null
    /\ ppc_intelligence = Null
    /\ visual_map = Null
    /\ log = <<>>
    /\ NoAuthCalls

\* await db.market_inputs.insert_one(market_input.dict()) (line 1396); an
\* insert that raises is answered with 500 (lines 1414-1417)
InsertMarketInput(r) ==
    /\ pc[r] = "step4a"
    /\ IF store[r] = "market_inputs_fails"
       THEN /\ pc' = [pc EXCEPT ![r] = "done"]
            /\ response' = [response EXCEPT ![r] = [status |-> 500]]
            /\ UNCHANGED db_market_inputs
       ELSE /\ pc' = [pc EXCEPT ![r] = "step4b"]
            /\ db_market_inputs' = Append(db_market_inputs, market_input[r])
            /\ UNCHANGED response
    /\ UNCHANGED authVars
    /\ UNCHANGED <<market_input, together_client, generator, content, store, ai_analysis,
                   ppc_intelligence, market_map, visual_map, db_market_maps, log>>

\* await db.market_maps.insert_one(market_map.dict()) (line 1399), then the
\* MarketAnalysis of lines 1403-1412
InsertMarketMap(r) ==
    /\ pc[r] = "step4b"
    /\ pc' = [pc EXCEPT ![r] = "done"]
    /\ IF store[r] = "market_maps_fails"
       THEN /\ response' = [response EXCEPT ![r] = [status |-> 500]]
            /\ UNCHANGED db_market_maps
       ELSE /\ response' = [response EXCEPT ![r] =
                               [status |-> 200, market_input |-> market_input[r],
                                market_map |-> market_map[r]]]
            /\ db_market_maps' = Append(db_market_maps, market_map[r])
    /\ UNCHANGED authVars
    /\ UNCHANGED <<market_input, together_client, generator, content, store, ai_analysis,
                   ppc_intelligence, market_map, visual_map, db_market_inputs, log>>

StoreNext ==
    \/ \E r \in Requests : InsertMarketInput(r)
    \/ \E r \in Requests : InsertMarketMap(r)

StoreSpec == StoreInit /\ [][StoreNext]_vars

(***************************************************************************)
(* Properties of the store                                                 *)
(***************************************************************************)
\* the stored MarketMaps that reference the MarketInput id
MapsOf(id) == {j \in 1..Len(db_market_maps) : db_market_maps[j].market_input_id = Str(id)}

\* the stored MarketInputs the MarketMap references
InputsOf(map) == {i \in 1..Len(db_market_inputs) : Str(db_market_inputs[i].id) = map.market_input_id}

\* C23: when the analyze-market requests have ended, every stored
\* MarketInput id is referenced by exactly one stored MarketMap and every
\* stored MarketMap references exactly one stored MarketInput.
C23_StoreIsOneToOne ==
    (\A r \in Requests : pc[r] = "done") =>
        /\ \A i \in 1..Len(db_market_inputs) :
               Cardinality(MapsOf(db_market_inputs[i].id)) = 1
        /\ \A j \in 1..Len(db_market_maps) :
               Cardinality(InputsOf(db_market_maps[j])) = 1

(***************************************************************************)
(* auth_routes.py: sessions, users and the admin endpoints                 *)
(*                                                                         *)
(* Every handler is a coroutine of the one event loop: it runs alone from  *)
(* one await of the database to the next, and the steps of other requests  *)
(* run between two awaits.  An action is one such stretch of a handler,    *)
(* with the database operation it awaits.  calls[c] holds the handler the  *)
(* client c is in, its position and its local variables.                   *)
(***************************************************************************)
Clients == {"c1", "c2"}

\* the login of each client: its address, and the session_token the auth
\* service answers its X-Session-ID with
LoginOf == [c1 |-> [email |-> "a", session_token |-> "T1"],
            c2 |-> [email |-> "b", session_token |-> "T2"]]

\* SessionData(**auth_response.json()) (line 105) for a login of the
\* client; "outside" is an address that does not end with the domain of
\* line 108
SessionDatas(c) == {LoginOf[c], [LoginOf[c] EXCEPT !.email = "outside"]}

\* how a request of the client presents its token: as the session_token
\* cookie or as the Authorization header "Bearer <token>" (lines 29-35)
Presentations(c) ==
    {[cookie |-> LoginOf[c].session_token, bearer |-> "none"],
     [cookie |-> "none", bearer |-> LoginOf[c].session_token]}

\* AdminUserUpdate (auth_models.py:66-69): an Optional[bool] is the tuple of
\* its value, None the empty tuple
UpdateDatas ==
    {[is_active |-> <<FALSE>>, is_admin |-> <<>>], [is_active |-> <<>>, is_admin |-> <<FALSE>>],
     [is_active |-> <<TRUE>>, is_admin |-> <<>>], [is_active |-> <<>>, is_admin |-> <<>>]}

\* the most User documents ever made, and the most Session documents stored
MaxUsers == 2
MaxSessions == 2

\* Session.create_expiry (auth_models.py:40-42): timedelta(days=7)
SessionDays == 7

\* the clock runs to this day
MaxNow == 7

\* collection.find_one(filter): the first of the documents that match (the
\* set of their positions), or None
FirstOf(collection, matches) ==
    IF matches = {} THEN Null ELSE collection[Least(matches)]

\* collection.delete_one(filter): the collection without the first match
delete_one(collection, matches) ==
    IF matches = {} THEN collection
    ELSE [i \in 1..(Len(collection) - 1) |->
             IF i < Least(matches) THEN collection[i] ELSE collection[i + 1]]

\* lines 29-38: the cookie, else the token of a Bearer header, else None
session_token_of(request) ==
    IF request.cookie # "none" THEN request.cookie ELSE request.bearer

\* get_current_user on one state of the database (lines 26-54): the user of
\* the first session with the token that has not expired, or None
get_current_user(request) ==
    LET session == FirstOf(sessions,
                {i \in 1..Len(sessions) : sessions[i].session_token = session_token_of(request)
                                            /\ sessions[i].expires_at > now})
    IN  IF session_token_of(request) = "none" \/ session = Null THEN Null
        ELSE FirstOf(users, {i \in 1..Len(users) : users[i].id = session.user_id})

Idle == [op |-> "none", pc |-> "idle"]
Done(call, status) == [op |-> call.op, pc |-> "done", status |-> status]

AuthInit ==
    /\ users = <<>>
    /\ sessions = <<>>
    /\ uuids = 0
    /\ now = 0
    /\ calls = [c \in Clients |-> Idle]
    /\ market_input = Null
    /\ together_client = "none"
    /\ generator = NotCalled
    /\ content = <<>>
    /\ store = "ok"
    /\ pc = "auth"
    /\ ai_analysis = Null
    /\ ppc_intelligence = Null
    /\ market_map = Null
    /\ visual_map = Null
    /\ db_market_inputs = <<>>
    /\ db_market_maps = <<>>
    /\ response = Null
    /\ log = <<>>

\* the client is in no handler
Free(c) == calls[c].pc \in {"idle", "done"}

\* the create_session calls that are about to make a User, and those that
\* have not yet made their Session
Creating == {c \in Clients : calls[c].pc \in {"count_documents", "insert_user"}}
LoggingIn == {c \in Clients : calls[c].pc \in {"count_documents", "insert_user", "insert_session"}}

\* create_session to the await of line 115: the address is checked (line
\* 108) and db.users.find_one({"email": ...}) has answered; the update of
\* last_login (lines 120-123) writes no field of the model
CreateSession_FindUser(c) ==
    /\ Free(c)
    /\ Len(sessions) + Cardinality(LoggingIn) < MaxSessions
    /\ \E session_data \in SessionDatas(c) :
        /\ (\A i \in 1..Len(users) : users[i].email # session_data.email)
               => uuids + Cardinality(Creating) < MaxUsers
        /\ calls' = [calls EXCEPT ![c] =
            IF session_data.email = "outside"
            THEN Done([op |-> "create_session"], 403)
            ELSE [op |-> "create_session", session_data |-> session_data,
                  user |-> LET existing_user ==
                                   FirstOf(users, {i \in 1..Len(users) :
                                                  users[i].email = session_data.email})
                           IN  IF existing_user = Null THEN [id |-> 0, is_active |-> TRUE]
                               ELSE [id |-> existing_user.id,
                                     is_active |-> existing_user.is_active],
                  user_count |-> 0,
                  pc |-> IF \E i \in 1..Len(users) : users[i].email = session_data.email
                         THEN "insert_session" ELSE "count_documents"]]
    /\ UNCHANGED <<users, sessions, uuids, now>>
    /\ UNCHANGED marketVars

\* line 126: user_count = await db.users.count_documents({})
CreateSession_CountUsers(c) ==
    /\ calls[c].pc = "count_documents"
    /\ calls' = [calls EXCEPT ![c] = [@ EXCEPT !.user_count = Len(users), !.pc = "insert_user"]]
    /\ UNCHANGED <<users, sessions, uuids, now>>
    /\ UNCHANGED marketVars

\* lines 127-137: User(..., is_admin=is_first_user) with a new id, is_active
\* True by default, and await db.users.insert_one(user.dict())
CreateSession_InsertUser(c) ==
    /\ calls[c].pc = "insert_user"
    /\ uuids' = uuids + 1
    /\ users' = Append(users, [id |-> uuids + 1, email |-> calls[c].session_data.email,
                               is_active |-> TRUE, is_admin |-> calls[c].user_count = 0])
    /\ calls' = [calls EXCEPT ![c] =
                    [@ EXCEPT !.user = [id |-> uuids + 1, is_active |-> TRUE],
                              !.pc = "insert_session"]]
    /\ UNCHANGED <<sessions, now>>
    /\ UNCHANGED marketVars

\* lines 141-151: the user read at line 115 (or made at line 129) is
\* refused when not active, else a Session with the token of the login and
\* an expiry of 7 days from now is inserted
CreateSession_InsertSession(c) ==
    /\ calls[c].pc = "insert_session"
    /\ IF calls[c].user.is_active
       THEN /\ sessions' = Append(sessions, [user_id |-> calls[c].user.id,
                                             session_token |-> calls[c].session_data.session_token,
                                             expires_at |-> now + SessionDays])
            /\ calls' = [calls EXCEPT ![c] = Done(@, 200)]
       ELSE /\ calls' = [calls EXCEPT ![c] = Done(@, 403)]
            /\ UNCHANGED sessions
    /\ UNCHANGED <<users, uuids, now>>
    /\ UNCHANGED marketVars

\* logout (lines 183-199): the token is read from the cookie only, and
\* delete_one removes one session that has it
Logout(c) ==
    /\ Free(c)
    /\ \E request \in Presentations(c) :
        /\ sessions' = IF request.cookie # "none"
                       THEN delete_one(sessions, {i \in 1..Len(sessions) :
                                                     sessions[i].session_token = request.cookie})
                       ELSE sessions
        /\ calls' = [calls EXCEPT ![c] = Done([op |-> "logout"], 200)]
    /\ UNCHANGED <<users, uuids, now>>
    /\ UNCHANGED marketVars

\* a request to a route that depends on require_auth or require_admin, to
\* the await of line 41 of get_current_user: the session of the token that
\* has not expired is looked up; no token or no session is answered with
\* 401 by require_auth (line 61)
GetCurrentUser_FindSession(c) ==
    /\ Free(c)
    /\ \E request \in Presentations(c),
          route \in [op : {"get_current_user_info"}, user_id : {0}, update_data : {[is_active |-> <<>>, is_admin |-> <<>>]}]
                    \cup [op : {"update_user"}, user_id : 1..MaxUsers, update_data : UpdateDatas]
                    \cup [op : {"delete_user"}, user_id : 1..MaxUsers, update_data : {[is_active |-> <<>>, is_admin |-> <<>>]}] :
        LET session == FirstOf(sessions,
                {i \in 1..Len(sessions) : sessions[i].session_token = session_token_of(request)
                                            /\ sessions[i].expires_at > now})
        IN  calls' = [calls EXCEPT ![c] =
                IF session = Null
                THEN Done([op |-> route.op], 401)
                ELSE [op |-> route.op, user_id |-> route.user_id,
                      update_data |-> route.update_data,
                      session |-> [user_id |-> session.user_id],
                      user |-> [id |-> 0], pc |-> "find_user"]]
    /\ UNCHANGED <<users, sessions, uuids, now>>
    /\ UNCHANGED marketVars

\* RequireAuth without the check of is_active of lines 63-64
RequireAuthOfAnyUser(c) ==
    /\ calls[c].pc = "find_user"
    /\ LET user == FirstOf(users, {i \in 1..Len(users) : users[i].id = calls[c].session.user_id})
       IN  calls' = [calls EXCEPT ![c] =
               IF user = Null THEN Done(@, 401)
               ELSE IF @.op = "get_current_user_info"
               THEN Done(@, 200)
               ELSE IF ~user.is_admin THEN Done(@, 403)
               ELSE [@ EXCEPT !.user = [id |-> user.id], !.pc = calls[c].op]]
    /\ UNCHANGED <<users, sessions, uuids, now>>
    /\ UNCHANGED marketVars

\* line 50 of get_current_user, then require_auth (lines 58-66) and, for an
\* admin route, require_admin (lines 70-75) on the user that was read;
\* get_current_user_info (lines 176-179) returns it
RequireAuth(c) ==
    /\ calls[c].pc = "find_user"
    /\ LET user == FirstOf(users, {i \in 1..Len(users) : users[i].id = calls[c].session.user_id})
       IN  calls' = [calls EXCEPT ![c] =
               IF user = Null THEN Done(@, 401)
               ELSE IF ~user.is_active THEN Done(@, 403)
               ELSE IF @.op = "get_current_user_info"
               THEN Done(@, 200)
               ELSE IF ~user.is_admin THEN Done(@, 403)
               ELSE [@ EXCEPT !.user = [id |-> user.id], !.pc = calls[c].op]]
    /\ UNCHANGED <<users, sessions, uuids, now>>
    /\ UNCHANGED marketVars

\* update_user to the await of line 241: an admin may not deactivate
\* itself (line 227), an empty update is refused (line 237), and
\* update_one sets the given fields of the first user with the id
UpdateUser_UpdateOne(c) ==
    /\ calls[c].pc = "update_user"
    /\ IF \/ (calls[c].user_id = calls[c].user.id /\ calls[c].update_data.is_active = <<FALSE>>)
          \/ (calls[c].update_data.is_active = <<>> /\ calls[c].update_data.is_admin = <<>>)
       THEN /\ calls' = [calls EXCEPT ![c] = Done(@, 400)]
            /\ UNCHANGED users
       ELSE IF \A i \in 1..Len(users) : users[i].id # calls[c].user_id
       THEN /\ calls' = [calls EXCEPT ![c] = Done(@, 404)]
            /\ UNCHANGED users
       ELSE /\ users' = [i \in 1..Len(users) |->
                            IF i = Least({j \in 1..Len(users) : users[j].id = calls[c].user_id})
                            THEN [users[i] EXCEPT
                                     !.is_active = IF calls[c].update_data.is_active = <<>>
                                                   THEN @ ELSE calls[c].update_data.is_active[1],
                                     !.is_admin = IF calls[c].update_data.is_admin = <<>>
                                                  THEN @ ELSE calls[c].update_data.is_admin[1]]
                            ELSE users[i]]
            /\ calls' = [calls EXCEPT ![c] = [@ EXCEPT !.pc = "find_updated"]]
    /\ UNCHANGED <<sessions, uuids, now>>
    /\ UNCHANGED marketVars

\* lines 250-251: updated_user = await db.users.find_one({"id": user_id});
\* UserResponse(**None) raises when the user is gone, which line 257
\* answers with 500
UpdateUser_FindOne(c) ==
    /\ calls[c].pc = "find_updated"
    /\ calls' = [calls EXCEPT ![c] =
                    IF \E i \in 1..Len(users) : users[i].id = calls[c].user_id
                    THEN Done(@, 200) ELSE Done(@, 500)]
    /\ UNCHANGED <<users, sessions, uuids, now>>
    /\ UNCHANGED marketVars

\* delete_user to the await of line 273: an admin may not delete itself
\* (line 269), and delete_one removes the first user with the id
DeleteUser_DeleteOne(c) ==
    /\ calls[c].pc = "delete_user"
    /\ IF calls[c].user_id = calls[c].user.id
       THEN /\ calls' = [calls EXCEPT ![c] = Done(@, 400)]
            /\ UNCHANGED users
       ELSE IF \A i \in 1..Len(users) : users[i].id # calls[c].user_id
       THEN /\ calls' = [calls EXCEPT ![c] = Done(@, 404)]
            /\ UNCHANGED users
       ELSE /\ users' = delete_one(users, {i \in 1..Len(users) : users[i].id = calls[c].user_id})
            /\ calls' = [calls EXCEPT ![c] = [@ EXCEPT !.pc = "delete_sessions"]]
    /\ UNCHANGED <<sessions, uuids, now>>
    /\ UNCHANGED marketVars

\* line 279: await db.sessions.delete_many({"user_id": user_id})
DeleteUser_DeleteSessions(c) ==
    /\ calls[c].pc = "delete_sessions"
    /\ sessions' = SelectSeq(sessions, LAMBDA s : s.user_id # calls[c].user_id)
    /\ calls' = [calls EXCEPT ![c] = Done(@, 200)]
    /\ UNCHANGED <<users, uuids, now>>
    /\ UNCHANGED marketVars

\* the sessions made so far run out
Tick ==
    /\ now < MaxNow
    /\ now' = now + SessionDays
    /\ UNCHANGED <<users, sessions, uuids, calls>>
    /\ UNCHANGED marketVars

AuthNext ==
    \/ \E c \in Clients : CreateSession_FindUser(c)
    \/ \E c \in Clients : CreateSession_CountUsers(c)
    \/ \E c \in Clients : CreateSession_InsertUser(c)
    \/ \E c \in Clients : CreateSession_InsertSession(c)
    \/ \E c \in Clients : Logout(c)
    \/ \E c \in Clients : GetCurrentUser_FindSession(c)
    \/ \E c \in Clients : RequireAuth(c)
    \/ \E c \in Clients : UpdateUser_UpdateOne(c)
    \/ \E c \in Clients : UpdateUser_FindOne(c)
    \/ \E c \in Clients : DeleteUser_DeleteOne(c)
    \/ \E c \in Clients : DeleteUser_DeleteSessions(c)
    \/ Tick

AuthSpec == AuthInit /\ [][AuthNext]_vars

(***************************************************************************)
(* Properties of auth_routes.py                                            *)
(***************************************************************************)
\* C25: a step of create_session that inserts a User with is_admin true is
\* taken only when no User has ever been made: the first user is the only
\* one that is made an admin at its creation, under every interleaving.
C25_OnlyFirstUserIsAdminAtCreation ==
    [][\A c \in Clients :
          (/\ calls[c].pc = "insert_user"
           /\ calls'[c].pc = "insert_session"
           /\ users'[Len(users')].is_admin)
              => (users = <<>> /\ uuids = 0)]_vars

\* the client has just ended a call of the handler op
Ends(c, op) == calls[c] # calls'[c] /\ calls'[c].pc = "done" /\ calls'[c].op = op

\* C26: when a logout made with the token T has ended, get_current_user
\* finds no user for T, presented as cookie or as Bearer header.
C26_LogoutEndsToken ==
    [][\A c \in Clients :
          Ends(c, "logout") =>
              \A request \in Presentations(c) : get_current_user(request)' = Null]_vars

\* the client has passed require_auth in this step
Passes(c) ==
    /\ calls[c].pc = "find_user"
    /\ \/ calls'[c].pc \in {"update_user", "delete_user"}
       \/ calls'[c].pc = "done" /\ calls'[c].status = 200

\* C28: a request passes require_auth only for a user that is stored and
\* active at that moment, and it has found its session only if a session
\* with its token was stored and had not expired at the lookup; so a request
\* with the token of a user that was deactivated or deleted is refused.
C28_OnlyLiveUsersPass ==
    [][\A c \in Clients :
          /\ Passes(c) =>
                 \E i \in 1..Len(users) :
                     /\ users[i].id = calls[c].session.user_id
                     /\ users[i].is_active
          /\ (Free(c) /\ calls'[c].pc = "find_user") =>
                 \E j \in 1..Len(sessions) :
                     /\ sessions[j].session_token = LoginOf[c].session_token
                     /\ sessions[j].user_id = calls'[c].session.user_id
                     /\ sessions[j].expires_at > now]_vars

\* a request with a stored session that has not expired has been refused
\* with 403 because the user of the session is stored as not active
C28_Witness ==
    \E c \in Clients :
        /\ calls[c].pc = "done"
        /\ calls[c].op = "get_current_user_info"
        /\ calls[c].status = 403
        /\ \A request \in Presentations(c) :
            /\ get_current_user(request) # Null
            /\ ~get_current_user(request).is_active

\* a user that is active and an admin is stored
ActiveAdmin == \E i \in 1..Len(users) : users[i].is_active /\ users[i].is_admin

\* C29: no step takes the last active admin away: when a user that is
\* active and an admin is stored before a step, one is stored after it.
C29_ActiveAdminRemains ==
    [][ActiveAdmin => ActiveAdmin']_vars

====
